---- MODULE Spec2Model ----
(***************************************************************************)
(* Trading-pattern analysis (SwapPatternAnalyzer), the statistics and      *)
(* token utilities it uses, the Walrus storage client with its             *)
(* store-or-skip decision and its historical aggregator, the               *)
(* get-trading-patterns, recommend-swaps and execute-trade tools of the    *)
(* MCP server, and the paginated swap fetch of the Sui client.             *)
(*                                                                         *)
(* Numbers.  JavaScript numbers are modelled by exact integer and rational *)
(* arithmetic.  Times are milliseconds.  A swap's amountIn is the decimal  *)
(* string of k * 10^9 base units and is represented by k.  Trade sizes are *)
(* kept in fortieths of a SUI, the unit in which every conversion rate of  *)
(* CONVERSION_RATES is a whole number.  NaN and Infinity, which the code   *)
(* produces by dividing by zero, are modelled explicitly.                  *)
(* Text is modelled by strings, built the way the template literals build  *)
(* them.                                                                   *)
(***************************************************************************)
EXTENDS Integers, Sequences, FiniteSets, TLC

VARIABLES
    swaps,          \* analyzePatterns: the swap events handed to the analyzer
    patterns,       \* analyzePatterns: the profile returned, or NoValue
    decision,       \* shouldUpdateAnalysis: the arguments and the result of a call
    clock,          \* Date.now(), milliseconds after ClockBase
    keypair,        \* TradingAnalysisStorage.keypair is set
    walrus,         \* the files written to Walrus, in order; blob id = index
    walrusUp,       \* the Walrus service accepts writes (writeFiles returns)
    smartResult,    \* smartStoreAnalysis: arguments and result of the last call
    chain,          \* the swap history the Sui node reports for each wallet
    toolResponse,   \* the last response of the cetus.get_trading_patterns tool
    sample,         \* statistics.ts: the array handed to a statistics function
    returned,       \* statistics.ts: the call made and what it returned or threw
    runs,           \* analyzePatterns: the profiles that successive runs on swaps returned
    historicalAnalyses, \* the array of StoredAnalysis handed to generateAggregatedInsights
    aggregatedInsights, \* generateAggregatedInsights: what the call returned, or NoValue before it
    invocations,    \* smartStoreAnalysis: the two invocations in flight, each at its await or returned
    currentRecommendations, \* server: the recommendations of the last cetus_recommend_swaps call
    tradeExecutor,  \* server: a trade executor is configured (DEMO_PRIVATE_KEY is set)
    submitted,      \* the transactions handed to signAndExecuteTransaction, in order
    recommended,    \* the recommendations list the last cetus_recommend_swaps response carried
    fetch           \* getSwapEventsForWallet: the locals of the call in progress and what it returned

vars == <<swaps, patterns, decision, clock, keypair, walrus, walrusUp,
          smartResult, chain, toolResponse, sample, returned, runs, historicalAnalyses, aggregatedInsights, invocations, currentRecommendations, tradeExecutor, submitted, recommended, fetch>>

\* undefined / null
NoValue == [undefined |-> TRUE]

(***************************************************************************)
(* Bounds of the model.                                                    *)
(***************************************************************************)
MaxSwaps == 3        \* longest swap sequence handed to the analyzer
MaxLen == 4          \* longest array handed to a statistics function
MaxRuns == 2         \* runs of analyzePatterns on one swap sequence
MaxAnalyses == 3     \* longest array handed to generateAggregatedInsights
MaxCount == 12       \* largest swap count given to shouldUpdateAnalysis
MaxClock == 1        \* the clock runs over ClockBase .. ClockBase + MaxClock
MaxStored == 1       \* files the storage client writes to Walrus in one run
MaxWrites == 2       \* files the server writes to Walrus in one run

(***************************************************************************)
(* Arithmetic helpers.                                                     *)
(***************************************************************************)
HourMs == 3600000
DayMs == 86400000

\* Math.round and toFixed on a non-negative quotient num/den: nearest
\* integer, halves upwards.
RoundHalfUp(num, den) ==
    LET q == num \div den
        r == num % den
    IN  IF 2 * r >= den THEN q + 1 ELSE q

\* x.toFixed(1) for x = num/den >= 0, den a multiple of 10
ToFixed1(num, den) ==
    LET tenths == RoundHalfUp(num, den \div 10)
    IN  ToString(tenths \div 10) \o "." \o ToString(tenths % 10)

\* x.toFixed(0) for x = num/den >= 0
ToFixed0(num, den) == ToString(RoundHalfUp(num, den))

RECURSIVE SeqSum(_)
SeqSum(s) == IF s = <<>> THEN 0 ELSE Head(s) + SeqSum(Tail(s))

\* Array.prototype.flat: the lists of a list, one after the other
RECURSIVE Flatten(_)
Flatten(lists) == IF lists = <<>> THEN <<>> ELSE Head(lists) \o Flatten(Tail(lists))

\* Array.prototype.slice(0, n)
Slice(s, n) == SubSeq(s, 1, IF n < Len(s) THEN n ELSE Len(s))

\* Array.prototype.sort with a numeric comparator: ascending and stable.  The
\* entries are [key |-> the number compared, item |-> the element].  An entry
\* goes behind the entries with a smaller key and the earlier ones with its key.
SortedPosition(s, i) ==
    Cardinality({j \in 1..Len(s) : s[j].key < s[i].key \/ (s[j].key = s[i].key /\ j < i)}) + 1

SortAscending(s) ==
    [p \in 1..Len(s) |-> s[CHOOSE i \in 1..Len(s) : SortedPosition(s, i) = p]]

\* .sort((a, b) => b.count - a.count): descending by count and stable
RECURSIVE InsertByCount(_, _)
InsertByCount(sorted, x) ==
    IF sorted = <<>> THEN <<x>>
    ELSE IF Head(sorted).count >= x.count
         THEN <<Head(sorted)>> \o InsertByCount(Tail(sorted), x)
         ELSE <<x>> \o sorted

RECURSIVE SortByCountDesc(_)
SortByCountDesc(s) ==
    IF s = <<>> THEN <<>>
    ELSE InsertByCount(SortByCountDesc(SubSeq(s, 1, Len(s) - 1)), s[Len(s)])

(***************************************************************************)
(* statistics.ts                                                           *)
(***************************************************************************)
\* A rational num/den with den > 0.
Rat(n, d) == [num |-> n, den |-> d]

\* mean without the case of the empty sequence: 0 / 0, which is NaN
mean_NoEmptyCase(numbers) == Rat(SeqSum(numbers), Len(numbers))

\* mean(numbers): 0 for the empty sequence
mean(numbers) ==
    IF Len(numbers) = 0 THEN Rat(0, 1)
    ELSE Rat(SeqSum(numbers), Len(numbers))

\* standardDeviation(numbers) is the square root of the value returned here:
\* the mean of the squared differences (num - avg)^2, with avg = S/n, so that
\* each term is (n*num - S)^2 / n^2.
standardDeviationSquared(numbers) ==
    IF Len(numbers) = 0 THEN Rat(0, 1)
    ELSE LET n == Len(numbers)
             avg == mean(numbers)
             squaredDiffs == [i \in 1..n |->
                                (n * numbers[i] - avg.num) * (n * numbers[i] - avg.num)]
         IN  Rat(SeqSum(squaredDiffs), n * n * n)

\* getBasicStats(numbers): the fields analyzeTradeSizing reads
getBasicStats(numbers) ==
    [mean |-> mean(numbers),
     stdSquared |-> standardDeviationSquared(numbers),
     count |-> Len(numbers)]

\* The distinct values of items, in the order of their first occurrence
\* (the key order of a Map and of an object with non-numeric keys).
FirstOccurrences(items) ==
    LET firsts == {i \in 1..Len(items) : \A j \in 1..(i - 1) : items[j] # items[i]}
    IN  [k \in 1..Cardinality(firsts) |->
            items[CHOOSE i \in firsts : Cardinality({j \in firsts : j < i}) = k - 1]]

CountOf(items, x) == Cardinality({i \in 1..Len(items) : items[i] = x})

\* getFrequencyDistribution with the values taken latest first sighting first
getFrequencyDistribution_TiesReversed(items) ==
    IF Len(items) = 0 THEN <<>>
    ELSE LET first == FirstOccurrences(items)
             keys == [i \in 1..Len(first) |-> first[Len(first) + 1 - i]]
         IN  SortByCountDesc([i \in 1..Len(keys) |->
                 [value |-> keys[i],
                  count |-> CountOf(items, keys[i]),
                  percentage |-> Rat(100 * CountOf(items, keys[i]), Len(items))]])

\* getFrequencyDistribution(items): percentage is the rational 100*count/length
getFrequencyDistribution(items) ==
    IF Len(items) = 0 THEN <<>>
    ELSE LET keys == FirstOccurrences(items)
         IN  SortByCountDesc([i \in 1..Len(keys) |->
                 [value |-> keys[i],
                  count |-> CountOf(items, keys[i]),
                  percentage |-> Rat(100 * CountOf(items, keys[i]), Len(items))]])

\* calculateHerfindahlIndex summing the shares themselves
calculateHerfindahlIndex_SharesNotSquared(items) ==
    IF Len(items) = 0 THEN Rat(0, 1)
    ELSE LET frequencies == getFrequencyDistribution(items)
             shares == [i \in 1..Len(frequencies) |-> frequencies[i].count]
         IN  Rat(SeqSum(shares) * Len(items), Len(items) * Len(items))

\* calculateHerfindahlIndex(items): sum of (percentage/100)^2
calculateHerfindahlIndex(items) ==
    IF Len(items) = 0 THEN Rat(0, 1)
    ELSE LET frequencies == getFrequencyDistribution(items)
             squares == [i \in 1..Len(frequencies) |->
                            frequencies[i].count * frequencies[i].count]
         IN  Rat(SeqSum(squares), Len(items) * Len(items))

hoursBetweenMs(timestamp1, timestamp2) ==
    IF timestamp1 >= timestamp2 THEN timestamp1 - timestamp2
    ELSE timestamp2 - timestamp1

\* [...numbers].sort((a, b) => a - b)
SortedNumbers(numbers) ==
    LET sorted == SortAscending([i \in 1..Len(numbers) |->
                                    [key |-> numbers[i], item |-> numbers[i]]])
    IN  [i \in 1..Len(sorted) |-> sorted[i].item]

\* median(numbers): 0 for the empty sequence, else the middle of the sorted
\* copy, the mean of the two middle values when the length is even
median(numbers) ==
    IF Len(numbers) = 0 THEN Rat(0, 1)
    ELSE LET sorted == SortedNumbers(numbers)
             mid == Len(sorted) \div 2
         IN  IF Len(sorted) % 2 = 0
             THEN Rat(sorted[mid] + sorted[mid + 1], 2)
             ELSE Rat(sorted[mid + 1], 1)

\* min(numbers): 0 for the empty sequence, else Math.min(...numbers)
min(numbers) ==
    IF Len(numbers) = 0 THEN 0
    ELSE CHOOSE x \in {numbers[i] : i \in 1..Len(numbers)} :
             \A i \in 1..Len(numbers) : x <= numbers[i]

\* max(numbers): 0 for the empty sequence, else Math.max(...numbers)
max(numbers) ==
    IF Len(numbers) = 0 THEN 0
    ELSE CHOOSE x \in {numbers[i] : i \in 1..Len(numbers)} :
             \A i \in 1..Len(numbers) : x >= numbers[i]

\* what a call does: it returns a value or throws an Error with a message
Returns(value) == [threw |-> FALSE, value |-> value]
Throws(message) == [threw |-> TRUE, message |-> message]

\* percentile(numbers, p) for a whole p.  index = (p / 100) * (length - 1) is
\* the rational p * (length - 1) / 100; between two positions the result is
\* the weighted mean of the two neighbours.
percentile(numbers, p) ==
    IF Len(numbers) = 0 THEN Returns(Rat(0, 1))
    ELSE IF p < 0 \/ p > 100 THEN Throws("Percentile must be between 0 and 100")
    ELSE LET sorted == SortedNumbers(numbers)
             hundredths == p * (Len(sorted) - 1)
             lower == hundredths \div 100
             weight == hundredths % 100
         IN  IF weight = 0 THEN Returns(Rat(sorted[lower + 1], 1))
             ELSE Returns(Rat(sorted[lower + 1] * (100 - weight)
                                  + sorted[lower + 2] * weight, 100))

\* getTimePeriod(timestamps) of a non-empty sequence: the span in milliseconds
\* (hours = spanMs / HourMs, days = hours / 24)
getTimePeriod(timestamps) ==
    LET sorted == SortedNumbers(timestamps)
        start == sorted[1]
        end == sorted[Len(sorted)]
    IN  [spanMs |-> hoursBetweenMs(start, end), start |-> start, end |-> end]

DAY_NAMES == <<"Sunday", "Monday", "Tuesday", "Wednesday", "Thursday", "Friday",
               "Saturday">>

formatHour(hour) ==
    IF hour = 0 THEN "12:00 AM"
    ELSE IF hour < 12 THEN ToString(hour) \o ":00 AM"
    ELSE IF hour = 12 THEN "12:00 PM"
    ELSE ToString(hour - 12) \o ":00 PM"

\* new Date(timestamp).getUTCHours() and .getUTCDay(); 1 January 1970 was a
\* Thursday
getUTCHours(timestamp) == (timestamp \div HourMs) % 24
getUTCDay(timestamp) == ((timestamp \div DayMs) + 4) % 7

(***************************************************************************)
(* token-utils.ts                                                          *)
(***************************************************************************)
SuiUsdcPool == "0xcf994611fd4c48e277ce3ffd4d4364c914af2c3cbb05f7bf6facd371de688630"
CetusSuiPoolA == "0x5b0b24c27ccf6d0e98f3a8704d2e577de83fa574d3a9060eb8945eeb82b3e2df"
CetusSuiPoolB == "0x2e041f3fd93646dcc877f783c1f2b7fa62d30271bdef1f21ef002cebf857bded"
UsdcUsdtPool == "0xc8d7a1503dc2f9f5b05449a87d8733593e2f0f3e7bffd90541252782e4d2ca20"
\* a pool identifier that KNOWN_POOLS does not hold
UnlistedPool == "0x871d8a227114f375170f149f7e9d45be822dd003eba225e83c05ac80828596bc"

KNOWN_POOLS ==
    (SuiUsdcPool :> [poolId |-> SuiUsdcPool, tokenA |-> "SUI", tokenB |-> "USDC",
                     displayName |-> "SUI/USDC"]) @@
    (CetusSuiPoolA :> [poolId |-> CetusSuiPoolA, tokenA |-> "CETUS", tokenB |-> "SUI",
                       displayName |-> "CETUS/SUI"]) @@
    (CetusSuiPoolB :> [poolId |-> CetusSuiPoolB, tokenA |-> "CETUS", tokenB |-> "SUI",
                       displayName |-> "CETUS/SUI"]) @@
    (UsdcUsdtPool :> [poolId |-> UsdcUsdtPool, tokenA |-> "USDC", tokenB |-> "USDT",
                      displayName |-> "USDC/USDT"])

getPoolInfo(poolId) ==
    IF poolId \in DOMAIN KNOWN_POOLS THEN KNOWN_POOLS[poolId]
    ELSE [poolId |-> poolId, tokenA |-> "TOKEN_A", tokenB |-> "TOKEN_B",
          displayName |-> "Pool:" \o SubSeq(poolId, 1, 8) \o "..."]

getTokensFromPool(poolId) ==
    LET poolInfo == getPoolInfo(poolId)
    IN  <<poolInfo.tokenA, poolInfo.tokenB>>

\* poolIds.flatMap(poolId => getTokensFromPool(poolId))
TokensOfPools(poolIds) ==
    Flatten([i \in 1..Len(poolIds) |-> getTokensFromPool(poolIds[i])])

getPoolDisplayName(poolId) == getPoolInfo(poolId).displayName

getSwapDirection(poolId, atob) ==
    LET poolInfo == getPoolInfo(poolId)
    IN  IF atob THEN [tokenIn |-> poolInfo.tokenA, tokenOut |-> poolInfo.tokenB]
        ELSE [tokenIn |-> poolInfo.tokenB, tokenOut |-> poolInfo.tokenA]

\* TOKEN_DECIMALS[tokenSymbol] || 9
TOKEN_DECIMALS(tokenSymbol) ==
    CASE tokenSymbol = "SUI" -> 9
      [] tokenSymbol = "USDC" -> 6
      [] tokenSymbol = "USDT" -> 6
      [] tokenSymbol = "CETUS" -> 9
      [] OTHER -> 9

\* normalizeTokenAmount: parseInt(amount) / 10^decimals, for the amount
\* string of k * 10^9 base units
normalizeTokenAmount(k, tokenSymbol) ==
    IF TOKEN_DECIMALS(tokenSymbol) = 6 THEN k * 1000 ELSE k

\* CONVERSION_RATES[tokenSymbol] || 1.0, in fortieths (0.025 = 1/40)
CONVERSION_RATES(tokenSymbol) ==
    CASE tokenSymbol = "SUI" -> 40
      [] tokenSymbol = "USDC" -> 40
      [] tokenSymbol = "USDT" -> 40
      [] tokenSymbol = "CETUS" -> 1
      [] OTHER -> 40

\* convertToSuiEquivalent, in fortieths of a SUI
convertToSuiEquivalent(amount, tokenSymbol) ==
    normalizeTokenAmount(amount, tokenSymbol) * CONVERSION_RATES(tokenSymbol)

\* analyzeTokenPreferences(poolIds) of token-utils.ts
tokenUtilsAnalyzeTokenPreferences(poolIds) ==
    LET tokens == TokensOfPools(poolIds)
        keys == FirstOccurrences(tokens)
        totalCounts == Len(tokens)
    IN  IF totalCounts = 0 THEN <<>>
        ELSE SortByCountDesc([i \in 1..Len(keys) |->
                 [token |-> keys[i],
                  count |-> CountOf(tokens, keys[i]),
                  percentage |-> Rat(100 * CountOf(tokens, keys[i]), totalCounts)]])

\* analyzePoolPreferences(poolIds) of token-utils.ts
tokenUtilsAnalyzePoolPreferences(poolIds) ==
    LET keys == FirstOccurrences(poolIds)
        totalCounts == Len(poolIds)
    IN  IF totalCounts = 0 THEN <<>>
        ELSE SortByCountDesc([i \in 1..Len(keys) |->
                 [pool |-> keys[i],
                  displayName |-> getPoolDisplayName(keys[i]),
                  count |-> CountOf(poolIds, keys[i]),
                  percentage |-> Rat(100 * CountOf(poolIds, keys[i]), totalCounts)]])

isMajorToken(tokenSymbol) == tokenSymbol \in {"SUI", "USDC", "USDT"}

isDefiToken(tokenSymbol) == tokenSymbol \in {"CETUS"}

categorizeTokens(tokens) ==
    LET IsMajor(t) == isMajorToken(t)
        IsDefi(t) == ~isMajorToken(t) /\ isDefiToken(t)
        IsOther(t) == ~isMajorToken(t) /\ ~isDefiToken(t)
    IN  [major |-> SelectSeq(tokens, IsMajor),
         defi |-> SelectSeq(tokens, IsDefi),
         other |-> SelectSeq(tokens, IsOther)]

(***************************************************************************)
(* The clock.  new Date().toISOString() for an instant of 11 January 1970. *)
(***************************************************************************)
ClockBase == 10 * DayMs

Pad(n, width) ==
    LET digits == ToString(n)
    IN  IF Len(digits) >= width THEN digits
        ELSE SubSeq("000", 1, width - Len(digits)) \o digits

toISOString(t) ==
    LET ms == t - ClockBase
    IN  "1970-01-11T" \o Pad(ms \div HourMs, 2) \o ":" \o
        Pad((ms % HourMs) \div 60000, 2) \o ":" \o
        Pad((ms % 60000) \div 1000, 2) \o "." \o Pad(ms % 1000, 3) \o "Z"

(***************************************************************************)
(* patterns.ts: SwapPatternAnalyzer                                        *)
(***************************************************************************)
\* swaps.map(s => s.pool)
PoolIds(swapEvents) == [i \in 1..Len(swapEvents) |-> swapEvents[i].pool]

\* swaps.map(s => s.timestamp)
TimestampsOf(swapEvents) == [i \in 1..Len(swapEvents) |-> swapEvents[i].timestamp]


\* totalSwaps counted over the distinct swap events
assessDataQuality_Distinct(swapEvents) ==
    LET timePeriod == getTimePeriod(TimestampsOf(swapEvents))
        confidence == IF Len(swapEvents) >= 50 THEN "high"
                      ELSE IF Len(swapEvents) >= 20 THEN "medium"
                      ELSE "low"
    IN  [totalSwaps |-> Len(FirstOccurrences(swapEvents)),
         timeRange |-> IF timePeriod.spanMs > DayMs
                       THEN ToFixed0(timePeriod.spanMs, DayMs) \o " days"
                       ELSE ToFixed1(timePeriod.spanMs, HourMs) \o " hours",
         dataConfidence |-> confidence]

assessDataQuality(swapEvents) ==
    LET timePeriod == getTimePeriod(TimestampsOf(swapEvents))
        confidence == IF Len(swapEvents) >= 50 THEN "high"
                      ELSE IF Len(swapEvents) >= 20 THEN "medium"
                      ELSE "low"
    IN  [totalSwaps |-> Len(swapEvents),
         timeRange |-> IF timePeriod.spanMs > DayMs
                       THEN ToFixed0(timePeriod.spanMs, DayMs) \o " days"
                       ELSE ToFixed1(timePeriod.spanMs, HourMs) \o " hours",
         dataConfidence |-> confidence]

\* analyzeTokenPreferences keeping every token
analyzeTokenPreferences_NoLimit(swapEvents) ==
    LET poolIds == PoolIds(swapEvents)
        tokenPrefs == tokenUtilsAnalyzeTokenPreferences(poolIds)
        allTokens == FirstOccurrences(TokensOfPools(poolIds))
        categories == categorizeTokens(allTokens)
        totalTokens == Len(allTokens)
        diversification == calculateHerfindahlIndex(TokensOfPools(poolIds))
        top == tokenPrefs
    IN  [favoriteTokens |-> [i \in 1..Len(top) |->
                                [token |-> top[i].token,
                                 percentage |-> RoundHalfUp(top[i].percentage.num,
                                                            top[i].percentage.den)]],
         \* Math.round((1 - diversification) * 100) / 100, in hundredths
         diversification |-> Rat(RoundHalfUp(100 * (diversification.den - diversification.num),
                                             diversification.den), 100),
         tokenCategories |->
            [major |-> RoundHalfUp(100 * Len(categories.major), totalTokens),
             defi |-> RoundHalfUp(100 * Len(categories.defi), totalTokens),
             other |-> RoundHalfUp(100 * Len(categories.other), totalTokens)]]

\* analyzeTokenPreferences with the category shares taken over the occurrences
analyzeTokenPreferences_PerOccurrence(swapEvents) ==
    LET poolIds == PoolIds(swapEvents)
        tokenPrefs == tokenUtilsAnalyzeTokenPreferences(poolIds)
        allTokens == TokensOfPools(poolIds)
        categories == categorizeTokens(allTokens)
        totalTokens == Len(allTokens)
        diversification == calculateHerfindahlIndex(TokensOfPools(poolIds))
        top == Slice(tokenPrefs, 5)
    IN  [favoriteTokens |-> [i \in 1..Len(top) |->
                                [token |-> top[i].token,
                                 percentage |-> RoundHalfUp(top[i].percentage.num,
                                                            top[i].percentage.den)]],
         \* Math.round((1 - diversification) * 100) / 100, in hundredths
         diversification |-> Rat(RoundHalfUp(100 * (diversification.den - diversification.num),
                                             diversification.den), 100),
         tokenCategories |->
            [major |-> RoundHalfUp(100 * Len(categories.major), totalTokens),
             defi |-> RoundHalfUp(100 * Len(categories.defi), totalTokens),
             other |-> RoundHalfUp(100 * Len(categories.other), totalTokens)]]

analyzeTokenPreferences(swapEvents) ==
    LET poolIds == PoolIds(swapEvents)
        tokenPrefs == tokenUtilsAnalyzeTokenPreferences(poolIds)
        allTokens == FirstOccurrences(TokensOfPools(poolIds))
        categories == categorizeTokens(allTokens)
        totalTokens == Len(allTokens)
        diversification == calculateHerfindahlIndex(TokensOfPools(poolIds))
        top == Slice(tokenPrefs, 5)
    IN  [favoriteTokens |-> [i \in 1..Len(top) |->
                                [token |-> top[i].token,
                                 percentage |-> RoundHalfUp(top[i].percentage.num,
                                                            top[i].percentage.den)]],
         \* Math.round((1 - diversification) * 100) / 100, in hundredths
         diversification |-> Rat(RoundHalfUp(100 * (diversification.den - diversification.num),
                                             diversification.den), 100),
         tokenCategories |->
            [major |-> RoundHalfUp(100 * Len(categories.major), totalTokens),
             defi |-> RoundHalfUp(100 * Len(categories.defi), totalTokens),
             other |-> RoundHalfUp(100 * Len(categories.other), totalTokens)]]

analyzePoolPreferences(swapEvents) ==
    LET poolIds == PoolIds(swapEvents)
        poolPrefs == tokenUtilsAnalyzePoolPreferences(poolIds)
        top == Slice(poolPrefs, 3)
    IN  [favoritePools |-> [i \in 1..Len(top) |->
                               [displayName |-> top[i].displayName,
                                percentage |-> RoundHalfUp(top[i].percentage.num,
                                                           top[i].percentage.den)]],
         poolCount |-> Len(poolPrefs)]

\* The trade sizes analyzeTradeSizing computes, in fortieths of a SUI
TradeSizes(swapEvents) ==
    [i \in 1..Len(swapEvents) |->
        convertToSuiEquivalent(swapEvents[i].amountIn,
            getSwapDirection(swapEvents[i].pool, swapEvents[i].atob).tokenIn)]

\* cv = stats.std / stats.mean, as its square; 0/0 is NaN, x/0 is Infinity
CoefficientOfVariation(stats) ==
    IF stats.mean.num = 0
    THEN [kind |-> IF stats.stdSquared.num = 0 THEN "NaN" ELSE "Infinity"]
    ELSE [kind |-> "finite",
          num |-> stats.stdSquared.num,
          den |-> (stats.stdSquared.den \div (stats.mean.den * stats.mean.den))
                     * stats.mean.num * stats.mean.num]

\* the greatest common divisor of a >= 0 and b > 0
RECURSIVE GCD(_, _)
GCD(a, b) == IF a = 0 THEN b ELSE GCD(b % a, a)

\* cv < a/10 for a non-negative cv; every comparison with NaN is false.
\* The square of cv is compared in lowest terms.
CvLessThanTenths(cv, a) ==
    /\ cv.kind = "finite"
    /\ LET g == GCD(cv.num, cv.den)
       IN  100 * (cv.num \div g) < a * a * (cv.den \div g)

\* cv <= a/10
CvAtMostTenths(cv, a) ==
    /\ cv.kind = "finite"
    /\ LET g == GCD(cv.num, cv.den)
       IN  100 * (cv.num \div g) <= a * a * (cv.den \div g)

ConsistencyOf_Inclusive(cv) ==
    IF CvAtMostTenths(cv, 3) THEN "very_consistent"
    ELSE IF CvAtMostTenths(cv, 6) THEN "consistent"
    ELSE IF CvAtMostTenths(cv, 10) THEN "varied"
    ELSE "highly_varied"

ConsistencyOf(cv) ==
    IF CvLessThanTenths(cv, 3) THEN "very_consistent"
    ELSE IF CvLessThanTenths(cv, 6) THEN "consistent"
    ELSE IF CvLessThanTenths(cv, 10) THEN "varied"
    ELSE "highly_varied"

analyzeTradeSizing(swapEvents) ==
    LET tradeSizes == TradeSizes(swapEvents)
        stats == getBasicStats(tradeSizes)
        cv == CoefficientOfVariation(stats)
    IN  [averageTradeSize |-> ToFixed0(stats.mean.num, 40 * stats.mean.den)
                                \o " SUI equiv",
         typicalRange |-> ToString(RoundHalfUp(7 * stats.mean.num, 400 * stats.mean.den))
                            \o "-" \o
                          ToString(RoundHalfUp(13 * stats.mean.num, 400 * stats.mean.den))
                            \o " SUI equiv",
         consistency |-> ConsistencyOf(cv)]

\* formatDuration(days), days = num/den with den a multiple of DayMs
formatDuration(days) ==
    IF days.num < days.den THEN ToFixed1(days.num, days.den \div 24)
    ELSE ToFixed1(days.num, days.den)

\* the swaps are left in arrival order
SortedSwaps_ArrivalOrder(swapEvents) == swapEvents

\* [...swaps].sort((a, b) => a.timestamp - b.timestamp)
SortedSwaps(swapEvents) ==
    LET sorted == SortAscending([i \in 1..Len(swapEvents) |->
                                    [key |-> swapEvents[i].timestamp,
                                     item |-> swapEvents[i]]])
    IN  [i \in 1..Len(sorted) |-> sorted[i].item]

\* timeBetween, in milliseconds (hoursDiff = gap / HourMs)
TimeBetween(sortedSwaps) ==
    [i \in 1..(Len(sortedSwaps) - 1) |->
        sortedSwaps[i + 1].timestamp - sortedSwaps[i].timestamp]

\* avgDaysBetween < k days, for the mean gap avgMs in milliseconds and 2k whole
RatLessThanHalfDays(avgMs, twoK) == avgMs.num \div avgMs.den < twoK * (DayMs \div 2)
    \* floor(x) < t is x < t for a whole number t

TradingStyleOf_Inclusive(avgMs) ==
    IF avgMs.num \div avgMs.den < (DayMs \div 2) + 1 THEN "high_frequency"
    ELSE IF avgMs.num \div avgMs.den < 2 * DayMs + 1 THEN "active"
    ELSE IF avgMs.num \div avgMs.den < 7 * DayMs + 1 THEN "moderate"
    ELSE "occasional"

TradingStyleOf(avgMs) ==
    IF RatLessThanHalfDays(avgMs, 1) THEN "high_frequency"
    ELSE IF RatLessThanHalfDays(avgMs, 4) THEN "active"
    ELSE IF RatLessThanHalfDays(avgMs, 14) THEN "moderate"
    ELSE "occasional"

analyzeTradingRhythm(swapEvents) ==
    IF Len(swapEvents) < 2
    THEN [frequency |-> "Insufficient data",
          averageTimeBetweenTrades |-> "N/A",
          tradingStyle |-> "occasional"]
    ELSE LET sortedSwaps == SortedSwaps(swapEvents)
             timeBetween == TimeBetween(sortedSwaps)
             avgMs == mean(timeBetween)
             \* avgDaysBetween * (swaps.length - 1), in days
             total == Rat(avgMs.num,
                          (avgMs.den \div (Len(swapEvents) - 1)) * DayMs)
         IN  [frequency |-> ToString(Len(swapEvents)) \o " swaps over "
                              \o formatDuration(total) \o " days",
              averageTimeBetweenTrades |->
                  IF RatLessThanHalfDays(avgMs, 2)
                  THEN ToFixed1(avgMs.num, avgMs.den * HourMs) \o " hours"
                  ELSE ToFixed1(avgMs.num, avgMs.den * DayMs) \o " days",
              tradingStyle |-> TradingStyleOf(avgMs)]

PeriodOfHour(hour) ==
    IF hour >= 0 /\ hour < 6 THEN "Late Night (0-6 UTC)"
    ELSE IF hour >= 6 /\ hour < 12 THEN "Morning (6-12 UTC)"
    ELSE IF hour >= 12 /\ hour < 18 THEN "Afternoon (12-18 UTC)"
    ELSE "Evening (18-24 UTC)"

analyzeTimingPatterns(swapEvents) ==
    LET hours == [i \in 1..Len(swapEvents) |-> getUTCHours(swapEvents[i].timestamp)]
        days == [i \in 1..Len(swapEvents) |-> getUTCDay(swapEvents[i].timestamp)]
        hourDistribution == getFrequencyDistribution(hours)
        dayDistribution == getFrequencyDistribution(days)
        mostActiveHour == IF Len(hourDistribution) > 0 THEN hourDistribution[1].value ELSE 0
        mostActiveDay == IF Len(dayDistribution) > 0 THEN dayDistribution[1].value ELSE 0
        periods == [i \in 1..Len(hours) |-> PeriodOfHour(hours[i])]
        periodDistribution == getFrequencyDistribution(periods)
    IN  [mostActiveHour |-> formatHour(mostActiveHour),
         mostActiveDay |-> DAY_NAMES[mostActiveDay + 1],
         timeDistribution |-> [i \in 1..Len(periodDistribution) |->
             [period |-> periodDistribution[i].value,
              percentage |-> RoundHalfUp(periodDistribution[i].percentage.num,
                                         periodDistribution[i].percentage.den)]]]

\* the label without the rule for major tokens
determineTradingPersonality_NoMajorRule(tokenPreferences, tradingRhythm) ==
    LET base == CASE tradingRhythm.tradingStyle = "high_frequency" -> "High-Frequency"
                  [] tradingRhythm.tradingStyle = "active" -> "Active"
                  [] tradingRhythm.tradingStyle = "moderate" -> "Moderate"
                  [] OTHER -> "Occasional"
        favoriteToken == IF Len(tokenPreferences.favoriteTokens) > 0
                         THEN tokenPreferences.favoriteTokens[1].token
                         ELSE "Token"
    IN  IF tokenPreferences.tokenCategories.defi >= 30
        THEN base \o " DeFi Trader (" \o favoriteToken \o " + Protocol Tokens)"
        ELSE base \o " Diversified Trader (" \o favoriteToken \o " Primary)"

determineTradingPersonality(tokenPreferences, tradingRhythm) ==
    LET base == CASE tradingRhythm.tradingStyle = "high_frequency" -> "High-Frequency"
                  [] tradingRhythm.tradingStyle = "active" -> "Active"
                  [] tradingRhythm.tradingStyle = "moderate" -> "Moderate"
                  [] OTHER -> "Occasional"
        favoriteToken == IF Len(tokenPreferences.favoriteTokens) > 0
                         THEN tokenPreferences.favoriteTokens[1].token
                         ELSE "Token"
        majorsPercentage == tokenPreferences.tokenCategories.major
    IN  IF majorsPercentage >= 80
        THEN base \o " " \o favoriteToken \o " Trader (Major Token Focus)"
        ELSE IF tokenPreferences.tokenCategories.defi >= 30
        THEN base \o " DeFi Trader (" \o favoriteToken \o " + Protocol Tokens)"
        ELSE base \o " Diversified Trader (" \o favoriteToken \o " Primary)"

\* generateKeyInsights with the warning on every confidence short of high
generateKeyInsights_WarnBelowHigh(tokenPreferences, poolPreferences, tradingSizing, tradingRhythm, timingPatterns, dataQuality) ==
    LET tokenInsight ==
            IF Len(tokenPreferences.favoriteTokens) > 0
            THEN <<"Prefers trading " \o tokenPreferences.favoriteTokens[1].token \o " ("
                   \o ToString(tokenPreferences.favoriteTokens[1].percentage)
                   \o "% of trades)">>
            ELSE <<>>
        poolInsight ==
            IF Len(poolPreferences.favoritePools) > 0
            THEN <<"Most active in " \o poolPreferences.favoritePools[1].displayName
                   \o " pool (" \o ToString(poolPreferences.favoritePools[1].percentage)
                   \o "% of trades)">>
            ELSE <<>>
        sizingInsight ==
            <<"Typical trade size: " \o tradingSizing.averageTradeSize \o " ("
              \o tradingSizing.consistency \o ")">>
        rhythmInsight ==
            IF tradingRhythm.tradingStyle = "high_frequency"
            THEN <<"Very active trader - " \o tradingRhythm.averageTimeBetweenTrades
                   \o " between trades">>
            ELSE <<tradingRhythm.tradingStyle \o " trading pace - "
                   \o tradingRhythm.averageTimeBetweenTrades \o " between trades">>
        timingInsight ==
            IF Len(timingPatterns.timeDistribution) > 0
            THEN <<"Most active during " \o timingPatterns.timeDistribution[1].period
                   \o " (" \o ToString(timingPatterns.timeDistribution[1].percentage)
                   \o "% of trades)">>
            ELSE <<>>
        qualityWarning ==
            IF dataQuality.dataConfidence # "high"
            \* the text follows a warning sign and a space, left out here
            THEN <<"Limited data (" \o ToString(dataQuality.totalSwaps)
                   \o " swaps) - patterns may not be representative">>
            ELSE <<>>
    IN  tokenInsight \o poolInsight \o sizingInsight \o rhythmInsight \o timingInsight
            \o qualityWarning

generateKeyInsights(tokenPreferences, poolPreferences, tradingSizing, tradingRhythm, timingPatterns, dataQuality) ==
    LET tokenInsight ==
            IF Len(tokenPreferences.favoriteTokens) > 0
            THEN <<"Prefers trading " \o tokenPreferences.favoriteTokens[1].token \o " ("
                   \o ToString(tokenPreferences.favoriteTokens[1].percentage)
                   \o "% of trades)">>
            ELSE <<>>
        poolInsight ==
            IF Len(poolPreferences.favoritePools) > 0
            THEN <<"Most active in " \o poolPreferences.favoritePools[1].displayName
                   \o " pool (" \o ToString(poolPreferences.favoritePools[1].percentage)
                   \o "% of trades)">>
            ELSE <<>>
        sizingInsight ==
            <<"Typical trade size: " \o tradingSizing.averageTradeSize \o " ("
              \o tradingSizing.consistency \o ")">>
        rhythmInsight ==
            IF tradingRhythm.tradingStyle = "high_frequency"
            THEN <<"Very active trader - " \o tradingRhythm.averageTimeBetweenTrades
                   \o " between trades">>
            ELSE <<tradingRhythm.tradingStyle \o " trading pace - "
                   \o tradingRhythm.averageTimeBetweenTrades \o " between trades">>
        timingInsight ==
            IF Len(timingPatterns.timeDistribution) > 0
            THEN <<"Most active during " \o timingPatterns.timeDistribution[1].period
                   \o " (" \o ToString(timingPatterns.timeDistribution[1].percentage)
                   \o "% of trades)">>
            ELSE <<>>
        qualityWarning ==
            IF dataQuality.dataConfidence = "low"
            \* the text follows a warning sign and a space, left out here
            THEN <<"Limited data (" \o ToString(dataQuality.totalSwaps)
                   \o " swaps) - patterns may not be representative">>
            ELSE <<>>
    IN  tokenInsight \o poolInsight \o sizingInsight \o rhythmInsight \o timingInsight
            \o qualityWarning

getEmptyPatterns(wallet, now) ==
    [wallet |-> wallet,
     analysisDate |-> toISOString(now),
     dataQuality |-> [totalSwaps |-> 0, timeRange |-> "No data", dataConfidence |-> "low"],
     tokenPreferences |-> [favoriteTokens |-> <<>>,
                           diversification |-> Rat(0, 100),
                           tokenCategories |-> [major |-> 0, defi |-> 0, other |-> 0]],
     poolPreferences |-> [favoritePools |-> <<>>, poolCount |-> 0],
     tradingSizing |-> [averageTradeSize |-> "No data", typicalRange |-> "No data",
                        consistency |-> "varied"],
     tradingRhythm |-> [frequency |-> "No trades found",
                        averageTimeBetweenTrades |-> "N/A",
                        tradingStyle |-> "occasional"],
     timingPatterns |-> [mostActiveHour |-> "N/A", mostActiveDay |-> "N/A",
                         timeDistribution |-> <<>>],
     tradingPersonality |-> "No Trading Activity Detected",
     keyInsights |-> <<"No swap activity found for this wallet">>]

\* analyzePatterns without the early return for no swaps: the sub-analyses
\* run on the empty sequence wherever they are defined on it
analyzePatterns_NoEmptyCase(wallet, swapEvents, now) ==
    LET dataQuality == [totalSwaps |-> Len(swapEvents), timeRange |-> "0.0 hours",
                        dataConfidence |-> "low"]
        tokenPreferences ==
            IF Len(swapEvents) = 0
            THEN [favoriteTokens |-> <<>>, diversification |-> Rat(100, 100),
                  tokenCategories |-> [major |-> 0, defi |-> 0, other |-> 0]]
            ELSE analyzeTokenPreferences(swapEvents)
        poolPreferences == analyzePoolPreferences(swapEvents)
        tradingSizing == analyzeTradeSizing(swapEvents)
        tradingRhythm == analyzeTradingRhythm(swapEvents)
        timingPatterns ==
            IF Len(swapEvents) = 0
            THEN [mostActiveHour |-> "12:00 AM", mostActiveDay |-> "Sunday",
                  timeDistribution |-> <<>>]
            ELSE analyzeTimingPatterns(swapEvents)
    IN  [wallet |-> wallet,
         analysisDate |-> toISOString(now),
         dataQuality |-> IF Len(swapEvents) = 0 THEN dataQuality
                         ELSE assessDataQuality(swapEvents),
         tokenPreferences |-> tokenPreferences,
         poolPreferences |-> poolPreferences,
         tradingSizing |-> tradingSizing,
         tradingRhythm |-> tradingRhythm,
         timingPatterns |-> timingPatterns,
         tradingPersonality |->
             determineTradingPersonality(tokenPreferences, tradingRhythm),
         keyInsights |->
             generateKeyInsights(tokenPreferences, poolPreferences, tradingSizing,
                                 tradingRhythm, timingPatterns, dataQuality)]

\* analyzePatterns(wallet, swaps), with the instant new Date() reads
\* analyzePatterns with the instant of the run among the insights
analyzePatterns_DatedInsights(wallet, swapEvents, now) ==
    IF Len(swapEvents) = 0 THEN getEmptyPatterns(wallet, now)
    ELSE LET dataQuality == assessDataQuality(swapEvents)
             tokenPreferences == analyzeTokenPreferences(swapEvents)
             poolPreferences == analyzePoolPreferences(swapEvents)
             tradingSizing == analyzeTradeSizing(swapEvents)
             tradingRhythm == analyzeTradingRhythm(swapEvents)
             timingPatterns == analyzeTimingPatterns(swapEvents)
         IN  [wallet |-> wallet,
              analysisDate |-> toISOString(now),
              dataQuality |-> dataQuality,
              tokenPreferences |-> tokenPreferences,
              poolPreferences |-> poolPreferences,
              tradingSizing |-> tradingSizing,
              tradingRhythm |-> tradingRhythm,
              timingPatterns |-> timingPatterns,
              tradingPersonality |->
                  determineTradingPersonality(tokenPreferences, tradingRhythm),
              keyInsights |->
                  generateKeyInsights(tokenPreferences, poolPreferences, tradingSizing,
                                      tradingRhythm, timingPatterns, dataQuality)
                  \o <<"Analysed at " \o toISOString(now)>>]

analyzePatterns(wallet, swapEvents, now) ==
    IF Len(swapEvents) = 0 THEN getEmptyPatterns(wallet, now)
    ELSE LET dataQuality == assessDataQuality(swapEvents)
             tokenPreferences == analyzeTokenPreferences(swapEvents)
             poolPreferences == analyzePoolPreferences(swapEvents)
             tradingSizing == analyzeTradeSizing(swapEvents)
             tradingRhythm == analyzeTradingRhythm(swapEvents)
             timingPatterns == analyzeTimingPatterns(swapEvents)
         IN  [wallet |-> wallet,
              analysisDate |-> toISOString(now),
              dataQuality |-> dataQuality,
              tokenPreferences |-> tokenPreferences,
              poolPreferences |-> poolPreferences,
              tradingSizing |-> tradingSizing,
              tradingRhythm |-> tradingRhythm,
              timingPatterns |-> timingPatterns,
              tradingPersonality |->
                  determineTradingPersonality(tokenPreferences, tradingRhythm),
              keyInsights |->
                  generateKeyInsights(tokenPreferences, poolPreferences, tradingSizing,
                                      tradingRhythm, timingPatterns, dataQuality)]

(***************************************************************************)
(* schema.ts: identifiers, the content hash and the update decision        *)
(***************************************************************************)
\* The printable ASCII characters of codes 32 to 95, and of codes 97 to 126.
AsciiUpTo95 ==
    " !\"#$%&'()*+,-./0123456789:;<=>?@ABCDEFGHIJKLMNOPQRSTUVWXYZ[\\]^_"

AsciiFrom97 == "abcdefghijklmnopqrstuvwxyz{|}~"

Base64Alphabet ==
    "ABCDEFGHIJKLMNOPQRSTUVWXYZabcdefghijklmnopqrstuvwxyz0123456789+/"

\* the character code of each printable ASCII character but the backquote
CharCode ==
    [c \in {SubSeq(AsciiUpTo95, i, i) : i \in 1..Len(AsciiUpTo95)}
           \cup {SubSeq(AsciiFrom97, i, i) : i \in 1..Len(AsciiFrom97)} |->
        IF \E i \in 1..Len(AsciiUpTo95) : SubSeq(AsciiUpTo95, i, i) = c
        THEN 31 + CHOOSE i \in 1..Len(AsciiUpTo95) : SubSeq(AsciiUpTo95, i, i) = c
        ELSE 96 + CHOOSE i \in 1..Len(AsciiFrom97) : SubSeq(AsciiFrom97, i, i) = c]

\* Buffer.from(text): the bytes of an ASCII string
BufferFrom(text) == [i \in 1..Len(text) |-> CharCode[SubSeq(text, i, i)]]

Base64Char(sextet) == SubSeq(Base64Alphabet, sextet + 1, sextet + 1)

\* buffer.toString('base64')
RECURSIVE ToBase64(_)
ToBase64(bytes) ==
    IF Len(bytes) = 0 THEN ""
    ELSE IF Len(bytes) = 1
    THEN Base64Char(bytes[1] \div 4) \o Base64Char((bytes[1] % 4) * 16) \o "=="
    ELSE IF Len(bytes) = 2
    THEN Base64Char(bytes[1] \div 4)
         \o Base64Char((bytes[1] % 4) * 16 + bytes[2] \div 16)
         \o Base64Char((bytes[2] % 16) * 4) \o "="
    ELSE Base64Char(bytes[1] \div 4)
         \o Base64Char((bytes[1] % 4) * 16 + bytes[2] \div 16)
         \o Base64Char((bytes[2] % 16) * 4 + bytes[3] \div 64)
         \o Base64Char(bytes[3] % 64)
         \o ToBase64(SubSeq(bytes, 4, Len(bytes)))

generateAnalysisId(wallet, timestamp) ==
    "analysis-" \o Slice(wallet, 8) \o "-" \o ToString(timestamp)

\* JSON.stringify(keyData): a key whose value is undefined is left out
KeyDataJson(p) ==
    "{\"swapCount\":" \o ToString(p.dataQuality.totalSwaps)
    \o (IF Len(p.tokenPreferences.favoriteTokens) > 0
        THEN ",\"topToken\":\"" \o p.tokenPreferences.favoriteTokens[1].token \o "\""
        ELSE "")
    \o ",\"tradingStyle\":\"" \o p.tradingRhythm.tradingStyle \o "\""
    \o ",\"analysisDate\":\"" \o p.analysisDate \o "\"}"

hashAnalysisData(p) == Slice(ToBase64(BufferFrom(KeyDataJson(p))), 16)

\* a / b for whole numbers a and b >= 0
JsDivide(a, b) ==
    IF b = 0
    THEN [kind |-> IF a = 0 THEN "NaN" ELSE IF a > 0 THEN "Infinity" ELSE "-Infinity"]
    ELSE [kind |-> "finite", num |-> a, den |-> b]

\* x > 0.1
GreaterThanTenth(x) ==
    \/ x.kind = "Infinity"
    \/ x.kind = "finite" /\ 10 * x.num > x.den

\* x >= 0.1
AtLeastTenth(x) ==
    \/ x.kind = "Infinity"
    \/ x.kind = "finite" /\ 10 * x.num >= x.den

shouldUpdateAnalysis_Inclusive(existing, newSwapCount, newDataHash) ==
    IF existing = NoValue THEN TRUE
    ELSE LET existingSwapCount == existing.metadata.swapCount
             swapIncrease == JsDivide(newSwapCount - existingSwapCount, existingSwapCount)
         IN  AtLeastTenth(swapIncrease) \/ existing.metadata.dataHash # newDataHash

shouldUpdateAnalysis(existing, newSwapCount, newDataHash) ==
    IF existing = NoValue THEN TRUE
    ELSE LET existingSwapCount == existing.metadata.swapCount
             swapIncrease == JsDivide(newSwapCount - existingSwapCount, existingSwapCount)
         IN  GreaterThanTenth(swapIncrease) \/ existing.metadata.dataHash # newDataHash

(***************************************************************************)
(* walrus-client.ts: TradingAnalysisStorage                                *)
(***************************************************************************)
\* the blob id Walrus returns for the next file written
NextBlobId == "blob-" \o ToString(Len(walrus) + 1)

\* The payload storeAnalysis builds.  A call completes within one millisecond:
\* Date.now() and new Date() read the same instant, now.
StoredAnalysisOf(wallet, p, now) ==
    [id |-> generateAnalysisId(wallet, now),
     wallet |-> wallet,
     analysis |-> p,
     storedAt |-> toISOString(now),
     version |-> "1.0",
     metadata |-> [dataHash |-> hashAnalysisData(p),
                   swapCount |-> p.dataQuality.totalSwaps,
                   confidenceLevel |-> p.dataQuality.dataConfidence]]

\* { ...storedAnalysis, metadata: { ...storedAnalysis.metadata, blobId } }
WithBlobId(storedAnalysis, blobId) ==
    [storedAnalysis EXCEPT !.metadata =
        [dataHash |-> storedAnalysis.metadata.dataHash,
         swapCount |-> storedAnalysis.metadata.swapCount,
         confidenceLevel |-> storedAnalysis.metadata.confidenceLevel,
         blobId |-> blobId]]

\* storeAnalysis(wallet, patterns).  hasKeypair: this.keypair is set;
\* writeOk: walrusClient.writeFiles returns instead of throwing.  The result
\* names the outcome, the file written (if any) and the value returned.
storeAnalysis(wallet, p, hasKeypair, writeOk, now, blobId) ==
    IF ~hasKeypair
    THEN [threw |-> TRUE, message |-> "Keypair required for storage operations",
          written |-> <<>>, returned |-> NoValue]
    ELSE IF ~writeOk
    THEN [threw |-> TRUE, message |-> "Walrus write failed",
          written |-> <<>>, returned |-> NoValue]
    ELSE LET storedAnalysis == StoredAnalysisOf(wallet, p, now)
         IN  [threw |-> FALSE, message |-> "",
              written |-> <<storedAnalysis>>,
              returned |-> WithBlobId(storedAnalysis, blobId)]

\* on a skip the result carries the new profile wrapped as the stored analysis
smartStoreAnalysis_SkipReturnsNew(wallet, p, existingAnalysis, hasKeypair, writeOk, now, blobId) ==
    LET newDataHash == hashAnalysisData(p)
        newSwapCount == p.dataQuality.totalSwaps
    IN  IF ~shouldUpdateAnalysis(existingAnalysis, newSwapCount, newDataHash)
        THEN [threw |-> FALSE, message |-> "", written |-> <<>>, stored |-> FALSE,
              analysis |-> [existingAnalysis EXCEPT !.analysis = p]]
        ELSE LET r == storeAnalysis(wallet, p, hasKeypair, writeOk, now, blobId)
             IN  [threw |-> r.threw, message |-> r.message, written |-> r.written,
                  stored |-> ~r.threw, analysis |-> r.returned]

\* smartStoreAnalysis(wallet, patterns, existingAnalysis)
smartStoreAnalysis(wallet, p, existingAnalysis, hasKeypair, writeOk, now, blobId) ==
    LET newDataHash == hashAnalysisData(p)
        newSwapCount == p.dataQuality.totalSwaps
    IN  IF ~shouldUpdateAnalysis(existingAnalysis, newSwapCount, newDataHash)
        THEN [threw |-> FALSE, message |-> "", written |-> <<>>, stored |-> FALSE,
              analysis |-> existingAnalysis]
        ELSE LET r == storeAnalysis(wallet, p, hasKeypair, writeOk, now, blobId)
             IN  [threw |-> r.threw, message |-> r.message, written |-> r.written,
                  stored |-> ~r.threw, analysis |-> r.returned]

\* the number that the decimal digits text[first..last] write
RECURSIVE DigitsValue(_, _, _)
DigitsValue(text, first, last) ==
    IF last < first THEN 0
    ELSE 10 * DigitsValue(text, first, last - 1) + (CharCode[SubSeq(text, last, last)] - 48)

\* new Date(iso).getTime() of a YYYY-MM-DDTHH:MM:SS.mmmZ text of January 1970
DateGetTime(iso) ==
    (DigitsValue(iso, 9, 10) - 1) * DayMs + DigitsValue(iso, 12, 13) * HourMs
    + DigitsValue(iso, 15, 16) * 60000 + DigitsValue(iso, 18, 19) * 1000
    + DigitsValue(iso, 21, 23)

\* analyses.sort((a, b) => new Date(a.storedAt).getTime() - new Date(b.storedAt).getTime()):
\* the array itself, sorted
SortedByStoredAt(analyses) ==
    LET sorted == SortAscending([i \in 1..Len(analyses) |->
                      [key |-> DateGetTime(analyses[i].storedAt), item |-> analyses[i]]])
    IN  [i \in 1..Len(sorted) |-> sorted[i].item]

\* favoriteTokens[0]?.token is a token and not undefined
HasTopToken(p) == Len(p.tokenPreferences.favoriteTokens) > 0

\* the notes that one pass of the loop pushes for prev and curr
EvolutionNotes(prev, curr) ==
    (IF prev.tradingRhythm.tradingStyle # curr.tradingRhythm.tradingStyle
     THEN <<"Trading style evolved from " \o prev.tradingRhythm.tradingStyle
            \o " to " \o curr.tradingRhythm.tradingStyle>>
     ELSE <<>>)
    \o
    (IF /\ HasTopToken(prev)
        /\ HasTopToken(curr)
        /\ prev.tokenPreferences.favoriteTokens[1].token
               # curr.tokenPreferences.favoriteTokens[1].token
     THEN <<"Shifted primary focus from " \o prev.tokenPreferences.favoriteTokens[1].token
            \o " to " \o curr.tokenPreferences.favoriteTokens[1].token>>
     ELSE <<>>)

\* the score pushed for curr, in quarters
ConsistencyQuarters(curr) ==
    IF curr.tradingSizing.consistency = "very_consistent" THEN 4
    ELSE IF curr.tradingSizing.consistency = "consistent" THEN 3
    ELSE IF curr.tradingSizing.consistency = "varied" THEN 2
    ELSE 1

ImprovementAreas(latestAnalysis) ==
    (IF latestAnalysis.dataQuality.dataConfidence = "low"
     THEN <<"Increase trading volume for better pattern recognition">> ELSE <<>>)
    \o (IF latestAnalysis.tradingSizing.consistency = "highly_varied"
        THEN <<"Consider more consistent position sizing">> ELSE <<>>)
    \o (IF latestAnalysis.tokenPreferences.tokenCategories.major < 50
        THEN <<"Focus on major tokens for better liquidity">> ELSE <<>>)

\* generateAggregatedInsights averaging over every profile, the oldest included
generateAggregatedInsights_ScoreOverAll(analyses) ==
    IF Len(analyses) < 2 THEN [array |-> analyses, returned |-> NoValue]
    ELSE LET sortedAnalyses == SortedByStoredAt(analyses)
             n == Len(sortedAnalyses)
             consistencyScores == [i \in 1..n |-> ConsistencyQuarters(sortedAnalyses[i].analysis)]
         IN  [array |-> sortedAnalyses,
              returned |->
                 [tradingEvolution |->
                      Flatten([i \in 1..(n - 1) |->
                                  EvolutionNotes(sortedAnalyses[i].analysis,
                                                 sortedAnalyses[i + 1].analysis)]),
                  consistencyScore |->
                      Rat(RoundHalfUp(25 * SeqSum(consistencyScores), Len(consistencyScores)), 100),
                  improvementAreas |-> ImprovementAreas(sortedAnalyses[n].analysis)]]

\* generateAggregatedInsights(analyses): array is the caller's array after the
\* call (sort works in place), returned is the value returned.  The
\* consistencyScore is Math.round(avgConsistency * 100) / 100, in hundredths.
generateAggregatedInsights(analyses) ==
    IF Len(analyses) < 2 THEN [array |-> analyses, returned |-> NoValue]
    ELSE LET sortedAnalyses == SortedByStoredAt(analyses)
             n == Len(sortedAnalyses)
             consistencyScores == [i \in 1..(n - 1) |->
                                      ConsistencyQuarters(sortedAnalyses[i + 1].analysis)]
         IN  [array |-> sortedAnalyses,
              returned |->
                 [tradingEvolution |->
                      Flatten([i \in 1..(n - 1) |->
                                  EvolutionNotes(sortedAnalyses[i].analysis,
                                                 sortedAnalyses[i + 1].analysis)]),
                  consistencyScore |->
                      Rat(RoundHalfUp(25 * SeqSum(consistencyScores), Len(consistencyScores)), 100),
                  improvementAreas |-> ImprovementAreas(sortedAnalyses[n].analysis)]]

(***************************************************************************)
(* MCP server: the cetus.get_trading_patterns tool                         *)
(***************************************************************************)
StorageFailedNote(message) == "\n\nStorage failed: " \o message

StoredNote(blobId) == "\n\nAnalysis stored on Walrus (Blob ID: " \o blobId \o ")"

UsingExistingNote ==
    "\n\nUsing existing Walrus analysis (no significant changes detected)"

\* The response text is JSON.stringify(patterns, null, 2) + storageInfo; the
\* two parts are kept apart.  (The notes' leading pictographs are left out.)
ToolResult(p, storageInfo) ==
    [isError |-> FALSE, patterns |-> p, storageInfo |-> storageInfo, text |-> ""]

ToolError(message) ==
    [isError |-> TRUE, patterns |-> NoValue, storageInfo |-> "",
     text |-> "Error analyzing trading patterns: " \o message]

\* a storage error is not caught next to the storage step and reaches the
\* handler's outer catch
getTradingPatterns_StorageErrorEscapes(wallet, swapEvents, hasKeypair, writeOk, now, blobId) ==
    LET p == analyzePatterns(wallet, swapEvents, now)
    IN  IF p.dataQuality.totalSwaps > 0
        THEN LET result == smartStoreAnalysis(wallet, p, NoValue, hasKeypair,
                                              writeOk, now, blobId)
             IN  IF result.threw
                 THEN [response |-> ToolError(result.message), written |-> <<>>]
                 ELSE IF result.stored
                 THEN [response |-> ToolResult(p, StoredNote(result.analysis.metadata.blobId)),
                       written |-> result.written]
                 ELSE [response |-> ToolResult(p, UsingExistingNote),
                       written |-> result.written]
        ELSE [response |-> ToolResult(p, ""), written |-> <<>>]

\* getTradingPatterns(wallet): swapEvents is what getSwapEventsForWallet
\* returned.  The result is the tool response and the file written, if any.
getTradingPatterns(wallet, swapEvents, hasKeypair, writeOk, now, blobId) ==
    LET p == analyzePatterns(wallet, swapEvents, now)
    IN  IF p.dataQuality.totalSwaps > 0
        THEN LET result == smartStoreAnalysis(wallet, p, NoValue, hasKeypair,
                                              writeOk, now, blobId)
             IN  IF result.threw
                 THEN [response |-> ToolResult(p, StorageFailedNote(result.message)),
                       written |-> <<>>]
                 ELSE IF result.stored
                 THEN [response |-> ToolResult(p, StoredNote(result.analysis.metadata.blobId)),
                       written |-> result.written]
                 ELSE [response |-> ToolResult(p, UsingExistingNote),
                       written |-> result.written]
        ELSE [response |-> ToolResult(p, ""), written |-> <<>>]

(***************************************************************************)
(* The analyzer on its own: analyzePatterns applied to a swap sequence.    *)
(***************************************************************************)
Wallet1 == "0x7a3f9c21d4b8e6f05a17c3928b4de60f1c2a5b7d8e9f00112233445566778899"

Wallets == {Wallet1}

SwapEvent(t, p, a, d) == [timestamp |-> t, pool |-> p, amountIn |-> a, atob |-> d]

\* Swaps of one instant that differ in pool, direction and amount, and swaps
\* of one pool, direction and amount that differ in their instant.
Amounts == {0, 1, 4, 7, 13}
Timestamps == {0, 12 * HourMs, 60 * HourMs, 228 * HourMs}
SwapUniverse ==
    {SwapEvent(0, CetusSuiPoolB, a, d) : a \in Amounts, d \in BOOLEAN}
    \cup {SwapEvent(0, UnlistedPool, 1, TRUE)}
    \cup {SwapEvent(t, CetusSuiPoolB, 7, FALSE) : t \in Timestamps}
    \cup {SwapEvent(t, SuiUsdcPool, 1, TRUE) : t \in {0, 12 * HourMs}}
    \cup {SwapEvent(0, UsdcUsdtPool, 0, TRUE)}

SeqsUpTo(S, n) == UNION {[1..k -> S] : k \in 0..n}

InitAnalyzer ==
    /\ swaps \in SeqsUpTo(SwapUniverse, MaxSwaps)
    /\ patterns = NoValue
    /\ decision = NoValue
    /\ clock = ClockBase
    /\ keypair = FALSE
    /\ walrus = <<>>
    /\ walrusUp = TRUE
    /\ smartResult = NoValue
    /\ chain = [w \in Wallets |-> <<>>]
    /\ toolResponse = NoValue
    /\ sample = <<>>
    /\ returned = NoValue
    /\ runs = <<>>
    /\ historicalAnalyses = <<>>
    /\ aggregatedInsights = NoValue
    /\ invocations = NoValue
    /\ currentRecommendations = <<>>
    /\ tradeExecutor = FALSE
    /\ submitted = <<>>
    /\ recommended = NoValue
    /\ fetch = NoValue

\* patternAnalyzer.analyzePatterns(wallet, swaps)
AnalyzePatternsCall ==
    /\ patterns = NoValue
    /\ patterns' = analyzePatterns(Wallet1, swaps, clock)
    /\ UNCHANGED <<swaps, decision, clock, keypair, walrus, walrusUp,
                   smartResult, chain, toolResponse,
                   sample, returned, runs, historicalAnalyses, aggregatedInsights, invocations, currentRecommendations, tradeExecutor, submitted, recommended, fetch>>

NextAnalyzer == AnalyzePatternsCall

SpecAnalyzer == InitAnalyzer /\ [][NextAnalyzer]_vars

(***************************************************************************)
(* The analyzer on long histories: runs of up to 60 like swaps through one *)
(* pool, evenly spaced, which reach every level of data confidence.        *)
(***************************************************************************)
\* n swaps through one pool, gapMs apart, each selling amount in one direction
ScenarioRun(pool, gapMs, n, amount, atob) ==
    [i \in 1..n |-> SwapEvent((i - 1) * gapMs, pool, amount, atob)]

\* pool, amountIn and direction of the swaps of a run
ScenarioKinds ==
    {<<SuiUsdcPool, 1, TRUE>>, <<CetusSuiPoolA, 1, TRUE>>, <<CetusSuiPoolA, 7, TRUE>>,
     <<CetusSuiPoolB, 1, TRUE>>, <<CetusSuiPoolB, 1, FALSE>>, <<UnlistedPool, 1, TRUE>>}

ScenarioLengths == {1, 19, 20, 49, 50, 60}

\* 60 swaps 122 seconds apart span just under two hours
ScenarioGaps == {0, 1000, 122000, 12 * HourMs}

\* the runs whose swaps all lie before the instant of the analysis
ScenarioRuns ==
    UNION {{ScenarioRun(k[1], g, n, k[2], k[3]) :
                k \in ScenarioKinds,
                n \in {m \in ScenarioLengths : g <= ClockBase \div m}} :
            g \in ScenarioGaps}

InitScenario ==
    /\ swaps \in ScenarioRuns
    /\ patterns = NoValue
    /\ decision = NoValue
    /\ clock = ClockBase
    /\ keypair = FALSE
    /\ walrus = <<>>
    /\ walrusUp = TRUE
    /\ smartResult = NoValue
    /\ chain = [w \in Wallets |-> <<>>]
    /\ toolResponse = NoValue
    /\ sample = <<>>
    /\ returned = NoValue
    /\ runs = <<>>
    /\ historicalAnalyses = <<>>
    /\ aggregatedInsights = NoValue
    /\ invocations = NoValue
    /\ currentRecommendations = <<>>
    /\ tradeExecutor = FALSE
    /\ submitted = <<>>
    /\ recommended = NoValue
    /\ fetch = NoValue

NextScenario == AnalyzePatternsCall

SpecScenario == InitScenario /\ [][NextScenario]_vars

(***************************************************************************)
(* The analyzer on swaps that arrive in any order: every sequence of swaps *)
(* made at a few different times, some of them at the same time.           *)
(***************************************************************************)
ArrivalUniverse ==
    {SwapEvent(t, CetusSuiPoolB, 7, FALSE) : t \in Timestamps}
    \cup {SwapEvent(12 * HourMs, SuiUsdcPool, 1, TRUE), SwapEvent(HourMs, UnlistedPool, 1, TRUE)}

InitArrival ==
    /\ swaps \in SeqsUpTo(ArrivalUniverse, MaxSwaps)
    /\ patterns = NoValue
    /\ decision = NoValue
    /\ clock = ClockBase
    /\ keypair = FALSE
    /\ walrus = <<>>
    /\ walrusUp = TRUE
    /\ smartResult = NoValue
    /\ chain = [w \in Wallets |-> <<>>]
    /\ toolResponse = NoValue
    /\ sample = <<>>
    /\ returned = NoValue
    /\ runs = <<>>
    /\ historicalAnalyses = <<>>
    /\ aggregatedInsights = NoValue
    /\ invocations = NoValue
    /\ currentRecommendations = <<>>
    /\ tradeExecutor = FALSE
    /\ submitted = <<>>
    /\ recommended = NoValue
    /\ fetch = NoValue

NextArrival == AnalyzePatternsCall

SpecArrival == InitArrival /\ [][NextArrival]_vars

(***************************************************************************)
(* The statistics functions on their own: each is called once on an array  *)
(* of up to MaxLen numbers.                                                *)
(***************************************************************************)
\* the numbers of a sample; as hours after the epoch they fall on two days
\* and in two periods of the day
StatValues == {0, 1, 5, 30}

\* the ranks handed to percentile, inside and outside [0, 100]
Ranks == {-1, 0, 25, 50, 100, 101, 150}

InitStatistics ==
    /\ sample \in SeqsUpTo(StatValues, MaxLen)
    /\ returned = NoValue
    /\ swaps = <<>>
    /\ patterns = NoValue
    /\ decision = NoValue
    /\ clock = ClockBase
    /\ keypair = FALSE
    /\ walrus = <<>>
    /\ walrusUp = TRUE
    /\ smartResult = NoValue
    /\ chain = [w \in Wallets |-> <<>>]
    /\ toolResponse = NoValue
    /\ runs = <<>>
    /\ historicalAnalyses = <<>>
    /\ aggregatedInsights = NoValue
    /\ invocations = NoValue
    /\ currentRecommendations = <<>>
    /\ tradeExecutor = FALSE
    /\ submitted = <<>>
    /\ recommended = NoValue
    /\ fetch = NoValue

\* a call of fn with the sample, and with p where fn takes a rank
Call(fn, p, outcome) ==
    /\ returned = NoValue
    /\ returned' = [fn |-> fn, p |-> p, outcome |-> outcome]
    /\ UNCHANGED <<swaps, patterns, decision, clock, keypair, walrus, walrusUp,
                   smartResult, chain, toolResponse, sample, runs, historicalAnalyses, aggregatedInsights, invocations, currentRecommendations, tradeExecutor, submitted, recommended, fetch>>

MeanCall == Call("mean", NoValue, Returns(mean(sample)))

MedianCall == Call("median", NoValue, Returns(median(sample)))

MinCall == Call("min", NoValue, Returns(min(sample)))

MaxCall == Call("max", NoValue, Returns(max(sample)))

\* the value kept is the square of the number returned
StandardDeviationCall ==
    Call("standardDeviation", NoValue, Returns(standardDeviationSquared(sample)))

PercentileCall == \E p \in Ranks : Call("percentile", p, percentile(sample, p))

GetFrequencyDistributionCall ==
    Call("getFrequencyDistribution", NoValue, Returns(getFrequencyDistribution(sample)))

\* the items are the decimal texts of the numbers
SampleItems == [i \in 1..Len(sample) |-> ToString(sample[i])]

CalculateHerfindahlIndexCall ==
    Call("calculateHerfindahlIndex", NoValue, Returns(calculateHerfindahlIndex(SampleItems)))

\* the swaps of the sample: one swap at each number of hours after the epoch
SampleSwaps == [i \in 1..Len(sample) |-> SwapEvent(sample[i] * HourMs, CetusSuiPoolA, 1, TRUE)]

\* analyzePatterns calls analyzeTimingPatterns for a non-empty array only
AnalyzeTimingPatternsCall ==
    /\ Len(sample) > 0
    /\ Call("analyzeTimingPatterns", NoValue, Returns(analyzeTimingPatterns(SampleSwaps)))

NextStatistics ==
    \/ MeanCall
    \/ MedianCall
    \/ MinCall
    \/ MaxCall
    \/ StandardDeviationCall
    \/ PercentileCall
    \/ GetFrequencyDistributionCall
    \/ CalculateHerfindahlIndexCall
    \/ AnalyzeTimingPatternsCall

SpecStatistics == InitStatistics /\ [][NextStatistics]_vars

(***************************************************************************)
(* The update decision on its own: shouldUpdateAnalysis applied to a       *)
(* previous stored analysis (or none), a new swap count and a new hash.    *)
(***************************************************************************)
\* the hash of a profile, and a hash that is none of a profile
DataHashes == {hashAnalysisData(getEmptyPatterns(Wallet1, ClockBase)), "c3RhbGUgZGlnZXN0"}

\* of a previous stored analysis, the fields shouldUpdateAnalysis reads
PreviousAnalyses ==
    {[metadata |-> [swapCount |-> c, dataHash |-> h]] : c \in 0..MaxCount, h \in DataHashes}

InitDecision ==
    /\ decision \in [existing : {NoValue} \cup PreviousAnalyses,
                     newSwapCount : 0..MaxCount,
                     newDataHash : DataHashes,
                     called : {FALSE},
                     result : {FALSE}]
    /\ swaps = <<>>
    /\ patterns = NoValue
    /\ clock = ClockBase
    /\ keypair = FALSE
    /\ walrus = <<>>
    /\ walrusUp = TRUE
    /\ smartResult = NoValue
    /\ chain = [w \in Wallets |-> <<>>]
    /\ toolResponse = NoValue
    /\ sample = <<>>
    /\ returned = NoValue
    /\ runs = <<>>
    /\ historicalAnalyses = <<>>
    /\ aggregatedInsights = NoValue
    /\ invocations = NoValue
    /\ currentRecommendations = <<>>
    /\ tradeExecutor = FALSE
    /\ submitted = <<>>
    /\ recommended = NoValue
    /\ fetch = NoValue

ShouldUpdateAnalysisCall ==
    /\ ~decision.called
    /\ decision' = [decision EXCEPT
                       !.called = TRUE,
                       !.result = shouldUpdateAnalysis(decision.existing,
                                                       decision.newSwapCount,
                                                       decision.newDataHash)]
    /\ UNCHANGED <<swaps, patterns, clock, keypair, walrus, walrusUp, smartResult,
                   chain, toolResponse,
                   sample, returned, runs, historicalAnalyses, aggregatedInsights, invocations, currentRecommendations, tradeExecutor, submitted, recommended, fetch>>

NextDecision == ShouldUpdateAnalysisCall

SpecDecision == InitDecision /\ [][NextDecision]_vars

(***************************************************************************)
(* The storage client: smartStoreAnalysis called with profiles of a wallet *)
(* and with previous analyses read back from Walrus.                       *)
(***************************************************************************)
\* n swaps through one pool, gapMs apart
Run(pool, gapMs, n) == [i \in 1..n |-> SwapEvent((i - 1) * gapMs, pool, 7, TRUE)]

\* Histories that differ in swap count, in top token and in trading style.
StorageHistories ==
    {<<>>,
     Run(CetusSuiPoolB, HourMs, 2),
     Run(CetusSuiPoolB, HourMs, 3),
     Run(UnlistedPool, 12 * HourMs, 2)}

Range(s) == {s[i] : i \in DOMAIN s}

InitStorage ==
    /\ swaps = <<>>
    /\ patterns = NoValue
    /\ decision = NoValue
    /\ clock = ClockBase
    /\ keypair = FALSE
    /\ walrus = <<>>
    /\ walrusUp = TRUE
    /\ smartResult = NoValue
    /\ chain = [w \in Wallets |-> <<>>]
    /\ toolResponse = NoValue
    /\ sample = <<>>
    /\ returned = NoValue
    /\ runs = <<>>
    /\ historicalAnalyses = <<>>
    /\ aggregatedInsights = NoValue
    /\ invocations = NoValue
    /\ currentRecommendations = <<>>
    /\ tradeExecutor = FALSE
    /\ submitted = <<>>
    /\ recommended = NoValue
    /\ fetch = NoValue

\* a millisecond passes
Tick ==
    /\ clock < ClockBase + MaxClock
    /\ clock' = clock + 1
    /\ UNCHANGED <<swaps, patterns, decision, keypair, walrus, walrusUp,
                   smartResult, chain, toolResponse,
                   sample, returned, runs, historicalAnalyses, aggregatedInsights, invocations, currentRecommendations, tradeExecutor, submitted, recommended, fetch>>

\* storage.setKeypair(keypair)
SetKeypair ==
    /\ ~keypair
    /\ keypair' = TRUE
    /\ UNCHANGED <<swaps, patterns, decision, clock, walrus, walrusUp, smartResult,
                   chain, toolResponse,
                   sample, returned, runs, historicalAnalyses, aggregatedInsights, invocations, currentRecommendations, tradeExecutor, submitted, recommended, fetch>>

\* the Walrus service goes down or comes back
WalrusToggles ==
    /\ walrusUp' = ~walrusUp
    /\ UNCHANGED <<swaps, patterns, decision, clock, keypair, walrus, smartResult,
                   chain, toolResponse,
                   sample, returned, runs, historicalAnalyses, aggregatedInsights, invocations, currentRecommendations, tradeExecutor, submitted, recommended, fetch>>

\* storage.smartStoreAnalysis(wallet, patterns, existingAnalysis) with the
\* profile of a history analysed now and a previous analysis read from Walrus
SmartStoreAnalysisCall(wallet, history, existingAnalysis) ==
    \E p \in {analyzePatterns(wallet, history, clock)} :
    \E r \in {smartStoreAnalysis(wallet, p, existingAnalysis, keypair, walrusUp,
                                 clock, NextBlobId)} :
        /\ Len(walrus) + Len(r.written) <= MaxStored
        /\ walrus' = walrus \o r.written
        /\ smartResult' = [wallet |-> wallet, patterns |-> p,
                           existingAnalysis |-> existingAnalysis,
                           threw |-> r.threw, stored |-> r.stored,
                           analysis |-> r.analysis]
        /\ UNCHANGED <<swaps, patterns, decision, clock, keypair, walrusUp, chain,
                       toolResponse,
                   sample, returned, runs, historicalAnalyses, aggregatedInsights, invocations, currentRecommendations, tradeExecutor, submitted, recommended, fetch>>

NextStorage ==
    \/ Tick
    \/ SetKeypair
    \/ WalrusToggles
    \/ \E w \in Wallets, h \in StorageHistories,
          e \in {NoValue} \cup Range(walrus) :
            SmartStoreAnalysisCall(w, h, e)

SpecStorage == InitStorage /\ [][NextStorage]_vars

(***************************************************************************)
(* The historical aggregator: generateAggregatedInsights called once on an *)
(* array of up to MaxAnalyses stored analyses of one wallet.               *)
(***************************************************************************)
\* Histories whose profiles differ in style, in top token (one has none) and
\* in sizing consistency.
InsightHistories ==
    {<<>>,
     Run(CetusSuiPoolB, HourMs, 2),
     <<SwapEvent(0, SuiUsdcPool, 1, TRUE), SwapEvent(12 * HourMs, SuiUsdcPool, 1, TRUE)>>,
     <<SwapEvent(0, CetusSuiPoolB, 7, TRUE), SwapEvent(HourMs, CetusSuiPoolB, 13, TRUE)>>,
     <<SwapEvent(0, CetusSuiPoolB, 0, TRUE), SwapEvent(60 * HourMs, CetusSuiPoolB, 7, TRUE)>>}

\* the instants, after ClockBase, at which the analyses were stored
StoredAtOffsets == {0, 1, 2}

\* what storeAnalysis built for the profiles of the histories
StoredAnalyses ==
    {StoredAnalysisOf(Wallet1, analyzePatterns(Wallet1, h, ClockBase + t), ClockBase + t) :
        h \in InsightHistories, t \in StoredAtOffsets}

InitInsights ==
    /\ historicalAnalyses \in SeqsUpTo(StoredAnalyses, MaxAnalyses)
    /\ aggregatedInsights = NoValue
    /\ swaps = <<>>
    /\ patterns = NoValue
    /\ decision = NoValue
    /\ clock = ClockBase
    /\ keypair = FALSE
    /\ walrus = <<>>
    /\ walrusUp = TRUE
    /\ smartResult = NoValue
    /\ chain = [w \in Wallets |-> <<>>]
    /\ toolResponse = NoValue
    /\ sample = <<>>
    /\ returned = NoValue
    /\ runs = <<>>
    /\ invocations = NoValue
    /\ currentRecommendations = <<>>
    /\ tradeExecutor = FALSE
    /\ submitted = <<>>
    /\ recommended = NoValue
    /\ fetch = NoValue

\* storage.generateAggregatedInsights(historicalAnalyses); given is the array
\* as the caller handed it over
GenerateAggregatedInsightsCall ==
    /\ aggregatedInsights = NoValue
    /\ \E r \in {generateAggregatedInsights(historicalAnalyses)} :
           /\ historicalAnalyses' = r.array
           /\ aggregatedInsights' = [given |-> historicalAnalyses, returned |-> r.returned]
    /\ UNCHANGED <<swaps, patterns, decision, clock, keypair, walrus, walrusUp,
                   smartResult, chain, toolResponse, sample, returned, runs, invocations, currentRecommendations, tradeExecutor, submitted, recommended, fetch>>

NextInsights == GenerateAggregatedInsightsCall

SpecInsights == InitInsights /\ [][NextInsights]_vars

(***************************************************************************)
(* The analyzer run again and again on one swap sequence while time        *)
(* passes.                                                                 *)
(***************************************************************************)
RerunUniverse ==
    {SwapEvent(0, CetusSuiPoolB, 7, TRUE), SwapEvent(0, CetusSuiPoolB, 13, TRUE),
     SwapEvent(12 * HourMs, SuiUsdcPool, 1, TRUE), SwapEvent(60 * HourMs, UnlistedPool, 1, FALSE),
     SwapEvent(HourMs, UsdcUsdtPool, 0, TRUE), SwapEvent(228 * HourMs, CetusSuiPoolA, 0, FALSE)}

InitRerun ==
    /\ swaps \in SeqsUpTo(RerunUniverse, 2)
    /\ patterns = NoValue
    /\ decision = NoValue
    /\ clock = ClockBase
    /\ keypair = FALSE
    /\ walrus = <<>>
    /\ walrusUp = TRUE
    /\ smartResult = NoValue
    /\ chain = [w \in Wallets |-> <<>>]
    /\ toolResponse = NoValue
    /\ sample = <<>>
    /\ returned = NoValue
    /\ runs = <<>>
    /\ historicalAnalyses = <<>>
    /\ aggregatedInsights = NoValue
    /\ invocations = NoValue
    /\ currentRecommendations = <<>>
    /\ tradeExecutor = FALSE
    /\ submitted = <<>>
    /\ recommended = NoValue
    /\ fetch = NoValue

\* patternAnalyzer.analyzePatterns(wallet, swaps), once more
AnalyzePatternsRun ==
    /\ Len(runs) < MaxRuns
    /\ \E p \in {analyzePatterns(Wallet1, swaps, clock)} :
           /\ patterns' = p
           /\ runs' = Append(runs, p)
    /\ UNCHANGED <<swaps, decision, clock, keypair, walrus, walrusUp,
                   smartResult, chain, toolResponse, sample, returned, historicalAnalyses, aggregatedInsights, invocations, currentRecommendations, tradeExecutor, submitted, recommended, fetch>>

NextRerun ==
    \/ Tick
    \/ AnalyzePatternsRun

SpecRerun == InitRerun /\ [][NextRerun]_vars

(***************************************************************************)
(* Two smartStoreAnalysis invocations in flight.  An invocation runs from  *)
(* its call to the await of walrusClient.writeFiles in one step, and from  *)
(* the settling of that promise to its return in a second step; steps of   *)
(* different invocations interleave.                                       *)
(***************************************************************************)
\* shares its first eight characters with Wallet1
Wallet2 == "0x7a3f9c88e1d2c3b4a5968778695a4b3c2d1e0f9f8e7d6c5b4a39281706f5e4d3"

RaceWallets == {Wallet1, Wallet2}

RaceHistories == {Run(CetusSuiPoolB, HourMs, 2), Run(CetusSuiPoolB, HourMs, 3)}

Invocations == {"first", "second"}

\* smartStoreAnalysis up to its decision: TRUE when it goes on to storeAnalysis
DecidesToStore_OnePerWallet(wallet, p, existingAnalysis) ==
    /\ \A j \in Invocations :
           ~(invocations[j].pc = "writing" /\ invocations[j].wallet = wallet)
    /\ shouldUpdateAnalysis(existingAnalysis, p.dataQuality.totalSwaps, hashAnalysisData(p))

DecidesToStore(wallet, p, existingAnalysis) ==
    shouldUpdateAnalysis(existingAnalysis, p.dataQuality.totalSwaps, hashAnalysisData(p))

\* an invocation not yet made
Idle == [pc |-> "idle", wallet |-> "", existingAnalysis |-> NoValue,
         dataHash |-> "", swapCount |-> 0,
         storedAnalysis |-> NoValue, stored |-> FALSE, analysis |-> NoValue]

\* analyses stored before either invocation is made
EarlierAnalyses ==
    {StoredAnalysisOf(w, analyzePatterns(w, Run(CetusSuiPoolB, HourMs, 2), ClockBase), ClockBase) :
        w \in RaceWallets}

InitRace ==
    /\ swaps = <<>>
    /\ patterns = NoValue
    /\ decision = NoValue
    /\ clock = ClockBase
    /\ keypair = TRUE
    /\ walrus \in {<<>>} \cup {<<e>> : e \in EarlierAnalyses}
    /\ walrusUp = TRUE
    /\ smartResult = NoValue
    /\ chain = [w \in Wallets |-> <<>>]
    /\ toolResponse = NoValue
    /\ sample = <<>>
    /\ returned = NoValue
    /\ runs = <<>>
    /\ historicalAnalyses = <<>>
    /\ aggregatedInsights = NoValue
    /\ invocations = [i \in Invocations |-> Idle]
    /\ currentRecommendations = <<>>
    /\ tradeExecutor = FALSE
    /\ submitted = <<>>
    /\ recommended = NoValue
    /\ fetch = NoValue

\* smartStoreAnalysis(wallet, patterns, existingAnalysis) is called and runs
\* to its first await, or to its return when it skips or throws before it
SmartStoreAnalysisBegins(i, wallet, history, existingAnalysis) ==
    /\ invocations[i].pc = "idle"
    /\ \E p \in {analyzePatterns(wallet, history, clock)} :
       \E begun \in {[Idle EXCEPT !.wallet = wallet,
                                  !.existingAnalysis = existingAnalysis,
                                  !.dataHash = hashAnalysisData(p),
                                  !.swapCount = p.dataQuality.totalSwaps]} :
           invocations' = [invocations EXCEPT ![i] =
               IF ~DecidesToStore(wallet, p, existingAnalysis)
               THEN [begun EXCEPT !.pc = "returned", !.analysis = existingAnalysis]
               ELSE IF ~keypair
               THEN [begun EXCEPT !.pc = "threw"]
               ELSE [begun EXCEPT !.pc = "writing",
                                  !.storedAnalysis = StoredAnalysisOf(wallet, p, clock)]]
    /\ UNCHANGED <<swaps, patterns, decision, clock, keypair, walrus, walrusUp,
                   smartResult, chain, toolResponse, sample, returned, runs,
                   historicalAnalyses, aggregatedInsights, currentRecommendations, tradeExecutor, submitted, recommended, fetch>>

\* walrusClient.writeFiles resolves: the file is on Walrus and the
\* invocation returns { stored: true, analysis }
WriteFilesResolves(i) ==
    /\ invocations[i].pc = "writing"
    /\ walrus' = Append(walrus, invocations[i].storedAnalysis)
    /\ invocations' = [invocations EXCEPT ![i] =
           [@ EXCEPT !.pc = "returned", !.stored = TRUE,
                     !.analysis = WithBlobId(invocations[i].storedAnalysis, NextBlobId)]]
    /\ UNCHANGED <<swaps, patterns, decision, clock, keypair, walrusUp,
                   smartResult, chain, toolResponse, sample, returned, runs,
                   historicalAnalyses, aggregatedInsights, currentRecommendations, tradeExecutor, submitted, recommended, fetch>>

\* walrusClient.writeFiles rejects: the invocation throws, nothing is written
WriteFilesRejects(i) ==
    /\ invocations[i].pc = "writing"
    /\ invocations' = [invocations EXCEPT ![i] = [@ EXCEPT !.pc = "threw"]]
    /\ UNCHANGED <<swaps, patterns, decision, clock, keypair, walrus, walrusUp,
                   smartResult, chain, toolResponse, sample, returned, runs,
                   historicalAnalyses, aggregatedInsights, currentRecommendations, tradeExecutor, submitted, recommended, fetch>>

NextRace ==
    \/ Tick
    \/ \E i \in Invocations, w \in RaceWallets, h \in RaceHistories :
       \E e \in {NoValue} \cup {f \in Range(walrus) : f.wallet = w} :
            SmartStoreAnalysisBegins(i, w, h, e)
    \/ \E i \in Invocations : WriteFilesResolves(i)
    \/ \E i \in Invocations : WriteFilesRejects(i)

SpecRace == InitRace /\ [][NextRace]_vars

(***************************************************************************)
(* MCP server: the cetus_recommend_swaps and cetus_execute_trade tools     *)
(***************************************************************************)
MaxTrades == 2       \* transactions submitted in one run

SuiCoinType == "0x2::sui::SUI"
DeepCoinType == "0xdeeb7a46::deep::DEEP"
CetusCoinType == "0x06864a6f::cetus::CETUS"
WormholeCoinType == "0x5d4b3025::coin::COIN"
UsdtCoinType == "0xc0600061::coin::usdt"

\* text.includes(part)
Includes(text, part) ==
    \E i \in 1..(Len(text) - Len(part) + 1) : SubSeq(text, i, i + Len(part) - 1) = part

LowerCaseLetters == "abcdefghijklmnopqrstuvwxyz"
UpperCaseLetters == "ABCDEFGHIJKLMNOPQRSTUVWXYZ"

\* text.toUpperCase() of ASCII text
RECURSIVE ToUpperCase(_)
ToUpperCase(text) ==
    IF text = "" THEN ""
    ELSE LET c == SubSeq(text, 1, 1)
             at == {k \in 1..26 : SubSeq(LowerCaseLetters, k, k) = c}
         IN  (IF at = {} THEN c
              ELSE SubSeq(UpperCaseLetters, CHOOSE k \in at : TRUE, CHOOSE k \in at : TRUE))
             \o ToUpperCase(SubSeq(text, 2, Len(text)))

\* the positions at which "::" starts in coinType
SeparatorPositions(coinType) ==
    {i \in 1..(Len(coinType) - 1) : SubSeq(coinType, i, i + 1) = "::"}

\* extractTokenSymbolFromCoinType(coinType)
extractTokenSymbolFromCoinType(coinType) ==
    IF coinType = SuiCoinType THEN "SUI"
    ELSE IF Includes(coinType, "::usdc::") \/ Includes(coinType, "::USDC") THEN "USDC"
    ELSE IF Includes(coinType, "::usdt::") \/ Includes(coinType, "::USDT") THEN "USDT"
    ELSE IF Includes(coinType, "::cetus::") \/ Includes(coinType, "::CETUS") THEN "CETUS"
    ELSE IF Includes(coinType, "::deep::") \/ Includes(coinType, "::DEEP") THEN "DEEP"
    ELSE LET seps == SeparatorPositions(coinType)
         IN  IF Cardinality(seps) >= 2
             THEN LET last == CHOOSE i \in seps : \A j \in seps : j <= i
                  IN  ToUpperCase(SubSeq(coinType, last + 2, Len(coinType)))
             ELSE Slice(coinType, 8)

\* array.slice(0, end); a negative end counts from the end of the array
ArraySlice(array, end) ==
    SubSeq(array, 1, IF end < 0
                     THEN (IF Len(array) + end < 0 THEN 0 ELSE Len(array) + end)
                     ELSE (IF end < Len(array) THEN end ELSE Len(array)))

\* discoverPoolsFromCetus(): sdkPools.pools is what
\* cetusSDK.Pool.getPoolsWithPage returned, unless sdkPools.threw says that it
\* threw; both an error and an empty answer end in getFallbackPools(), which
\* returns no pool
discoverPoolsFromCetus(sdkPools, now) ==
    IF sdkPools.threw THEN <<>>
    ELSE LET poolsToProcess == ArraySlice(sdkPools.pools, 20)
         IN  [i \in 1..Len(poolsToProcess) |->
                 [poolId |-> poolsToProcess[i].poolAddress,
                  coinTypeA |-> poolsToProcess[i].coinTypeA,
                  coinTypeB |-> poolsToProcess[i].coinTypeB,
                  tokenA |-> extractTokenSymbolFromCoinType(poolsToProcess[i].coinTypeA),
                  tokenB |-> extractTokenSymbolFromCoinType(poolsToProcess[i].coinTypeB),
                  liquidity |-> poolsToProcess[i].liquidity,
                  timestamp |-> now]]

\* one recommendation: buy tokenOut with 1 SUI.  random is the value of
\* Math.random() in hundredths; the arrow of the reasoning text is written ->
Recommendation(id, pool, tokenIn, tokenOut, symbolIn, symbolOut, random) ==
    [id |-> id,
     action |-> "buy",
     tokenIn |-> tokenIn,
     tokenOut |-> tokenOut,
     pool |-> pool.poolId,
     amount |-> "1000000000",
     confidence |-> Rat(6500 + 20 * random, 10000),
     reasoning |-> "Live pool data suggests " \o symbolIn \o "->" \o symbolOut
                     \o " opportunity (Pool: " \o Slice(pool.poolId, 8) \o "...)"]

\* the loop of generateRecommendationsFromPools from pool i on
RECURSIVE RecommendationsFrom(_, _, _, _, _)
RecommendationsFrom(pools, i, recommendations, maxRecommendations, randoms) ==
    IF i > Len(pools) THEN recommendations
    ELSE LET pool == pools[i]
             recommendationId == Len(recommendations) + 1
             pushed ==
                 IF pool.coinTypeA = SuiCoinType
                 THEN Append(recommendations,
                             Recommendation(recommendationId, pool, pool.coinTypeA,
                                            pool.coinTypeB, pool.tokenA, pool.tokenB,
                                            randoms[i]))
                 ELSE IF pool.coinTypeB = SuiCoinType
                 THEN Append(recommendations,
                             Recommendation(recommendationId, pool, pool.coinTypeB,
                                            pool.coinTypeA, pool.tokenB, pool.tokenA,
                                            randoms[i]))
                 ELSE recommendations
         IN  IF Len(pushed) >= maxRecommendations THEN pushed
             ELSE RecommendationsFrom(pools, i + 1, pushed, maxRecommendations, randoms)

\* generateRecommendationsFromPools(pools, maxRecommendations); randoms[i] is
\* the value Math.random() returns for the i-th pool
generateRecommendationsFromPools(pools, maxRecommendations, randoms) ==
    RecommendationsFrom(ArraySlice(pools, maxRecommendations), 1, <<>>,
                        maxRecommendations, randoms)

\* recommendSwaps(wallet, maxRecommendations): the new value of
\* currentRecommendations and the response.  Nothing in the try block throws
\* (discoverPoolsFromCetus and generateRecommendationsFromPools catch their
\* own errors), so the response is always the one of the try block.
recommendSwaps(wallet, maxRecommendations, sdkPools, randoms, now) ==
    LET activePools == discoverPoolsFromCetus(sdkPools, now)
        recommendations ==
            generateRecommendationsFromPools(activePools, maxRecommendations, randoms)
    IN  [currentRecommendations |-> recommendations,
         response |->
             [tool |-> "cetus_recommend_swaps",
              isError |-> FALSE,
              wallet |-> wallet,
              recommendations |-> recommendations,
              marketContext |->
                  [timestamp |-> toISOString(now),
                   note |-> "Use cetus.execute_trade with recommendation ID to execute",
                   poolsAnalyzed |-> Len(activePools)]]]

\* currentRecommendations.find(r => r.id === recommendationId); when no entry
\* has the id the first entry is taken
FindRecommendation_FirstWhenMissing(recommendations, recommendationId) ==
    IF \E i \in DOMAIN recommendations : recommendations[i].id = recommendationId
    THEN recommendations[CHOOSE i \in DOMAIN recommendations :
                             /\ recommendations[i].id = recommendationId
                             /\ \A j \in 1..(i - 1) : recommendations[j].id # recommendationId]
    ELSE IF recommendations # <<>> THEN recommendations[1]
    ELSE NoValue

\* currentRecommendations.find(r => r.id === recommendationId)
FindRecommendation(recommendations, recommendationId) ==
    IF \E i \in DOMAIN recommendations : recommendations[i].id = recommendationId
    THEN recommendations[CHOOSE i \in DOMAIN recommendations :
                             /\ recommendations[i].id = recommendationId
                             /\ \A j \in 1..(i - 1) : recommendations[j].id # recommendationId]
    ELSE NoValue

\* How the calls executeRecommendation makes can end: getPool finds no pool,
\* the transaction succeeds, the transaction fails on chain, or
\* signAndExecuteTransaction throws.
ExecutionOutcomes == {"pool_missing", "success", "tx_failed", "rpc_threw"}

\* SimpleTradeExecutor.executeRecommendation(recommendation, maxSlippage):
\* the transaction handed to signAndExecuteTransaction, if the call gets that
\* far, and the ExecutionResult.  a2b is recommendation.tokenIn === coinTypeA
\* of the pool getPool returned.
executeRecommendation(recommendation, a2b, outcome, digest, now) ==
    IF outcome = "pool_missing"
    THEN [submitted |-> <<>>,
          result |-> [success |-> FALSE,
                      error |-> "Pool " \o recommendation.pool \o " not found",
                      executedAt |-> now]]
    ELSE LET transaction == [pool_id |-> recommendation.pool,
                             a2b |-> a2b,
                             amount |-> recommendation.amount,
                             recommendationId |-> recommendation.id]
         IN  [submitted |-> <<transaction>>,
              result |->
                  IF outcome = "success"
                  THEN [success |-> TRUE, transactionDigest |-> digest, executedAt |-> now]
                  ELSE IF outcome = "tx_failed"
                  THEN [success |-> FALSE, error |-> "Unknown transaction error",
                        executedAt |-> now]
                  ELSE [success |-> FALSE, error |-> "fetch failed", executedAt |-> now]]

\* executeTrade(recommendationId, maxSlippage), maxSlippage in hundredths
executeTrade(recommendationId, maxSlippage, hasExecutor, recommendations, a2b, outcome, digest, now) ==
    IF ~hasExecutor
    THEN [submitted |-> <<>>,
          response |-> [tool |-> "cetus_execute_trade", isError |-> TRUE,
                        recommendationId |-> recommendationId,
                        error |-> "Trade execution not available",
                        reason |-> "No keypair configured. Set DEMO_PRIVATE_KEY in environment."]]
    ELSE LET recommendation == FindRecommendation(recommendations, recommendationId)
         IN  IF recommendation = NoValue
             THEN [submitted |-> <<>>,
                   response |-> [tool |-> "cetus_execute_trade", isError |-> TRUE,
                                 recommendationId |-> recommendationId,
                                 error |-> "Recommendation not found",
                                 availableIds |-> [i \in DOMAIN recommendations |->
                                                      recommendations[i].id],
                                 message |-> "Generate recommendations first using cetus.recommend_swaps"]]
             ELSE LET r == executeRecommendation(recommendation, a2b, outcome, digest, now)
                  IN  [submitted |-> r.submitted,
                       response |-> [tool |-> "cetus_execute_trade", isError |-> FALSE,
                                     recommendationId |-> recommendationId,
                                     recommendation |->
                                         [action |-> recommendation.action,
                                          amount |-> recommendation.amount,
                                          tokenIn |-> recommendation.tokenIn,
                                          tokenOut |-> recommendation.tokenOut,
                                          reasoning |-> recommendation.reasoning],
                                     execution |-> r.result,
                                     executedWith |-> ToString(maxSlippage) \o "% max slippage"]]

(***************************************************************************)
(* The server: cetus_recommend_swaps and cetus_execute_trade called one    *)
(* after the other, in any order.                                          *)
(***************************************************************************)
\* pools the Cetus SDK can report: two with SUI on one side, one without
SuiDeepSdkPool ==
    [poolAddress |-> "0x6dc404a1b2c3d4e5f60718293a4b5c6d7e8f90a1b2c3d4e5f60718293a4b5c6d",
     coinTypeA |-> SuiCoinType, coinTypeB |-> DeepCoinType, liquidity |-> "5000"]
CetusSuiSdkPool ==
    [poolAddress |-> CetusSuiPoolB,
     coinTypeA |-> CetusCoinType, coinTypeB |-> SuiCoinType, liquidity |-> "0"]
StableSdkPool ==
    [poolAddress |-> UsdcUsdtPool,
     coinTypeA |-> WormholeCoinType, coinTypeB |-> UsdtCoinType, liquidity |-> "70"]
SdkPools == {SuiDeepSdkPool, CetusSuiSdkPool, StableSdkPool}

\* what getPoolsWithPage can answer
SdkAnswers ==
    {[threw |-> TRUE, pools |-> <<>>]}
        \cup {[threw |-> FALSE, pools |-> s] :
                 s \in {<<>>, <<SuiDeepSdkPool>>, <<StableSdkPool>>,
                        <<CetusSuiSdkPool, SuiDeepSdkPool>>,
                        <<StableSdkPool, CetusSuiSdkPool>>,
                        <<SuiDeepSdkPool, StableSdkPool, CetusSuiSdkPool>>}}

\* the values successive calls of Math.random() return, in hundredths
RandomDraws == {<<0, 0, 0>>, <<95, 50, 0>>, <<50, 95, 95>>}

MaxRecommendationsArgs == {-1, 0, 1, 3}

RecommendationIdArgs == {0, 1, 2, 3}

\* cetusSDK.Pool.getPool(poolId).coinTypeA
CoinTypeAOf(poolId) == (CHOOSE sdkPool \in SdkPools : sdkPool.poolAddress = poolId).coinTypeA

InitTrade ==
    /\ swaps = <<>>
    /\ patterns = NoValue
    /\ decision = NoValue
    /\ clock = ClockBase
    /\ keypair = FALSE
    /\ walrus = <<>>
    /\ walrusUp = TRUE
    /\ smartResult = NoValue
    /\ chain = [w \in Wallets |-> <<>>]
    /\ toolResponse = NoValue
    /\ sample = <<>>
    /\ returned = NoValue
    /\ runs = <<>>
    /\ historicalAnalyses = <<>>
    /\ aggregatedInsights = NoValue
    /\ invocations = NoValue
    /\ currentRecommendations = <<>>
    /\ tradeExecutor \in BOOLEAN
    /\ submitted = <<>>
    /\ recommended = NoValue
    /\ fetch = NoValue

\* the cetus_recommend_swaps tool
RecommendSwaps(wallet, maxRecommendations, sdkPools, randoms) ==
    /\ \E r \in {recommendSwaps(wallet, maxRecommendations, sdkPools, randoms, clock)} :
           /\ currentRecommendations' = r.currentRecommendations
           /\ toolResponse' = r.response
           /\ recommended' = [recommendations |-> r.response.recommendations]
    /\ UNCHANGED <<swaps, patterns, decision, clock, keypair, walrus, walrusUp,
                   smartResult, chain, sample, returned, runs, historicalAnalyses,
                   aggregatedInsights, invocations, tradeExecutor, submitted, fetch>>

\* the cetus_execute_trade tool
ExecuteTrade(recommendationId, maxSlippage, outcome) ==
    /\ \E found \in {FindRecommendation(currentRecommendations, recommendationId)} :
       \E a2b \in {found # NoValue /\ found.tokenIn = CoinTypeAOf(found.pool)} :
       \E r \in {executeTrade(recommendationId, maxSlippage, tradeExecutor,
                              currentRecommendations, a2b, outcome,
                              "digest-" \o ToString(Len(submitted) + 1), clock)} :
           /\ Len(submitted) + Len(r.submitted) <= MaxTrades
           /\ submitted' = submitted \o r.submitted
           /\ toolResponse' = r.response
    /\ UNCHANGED <<swaps, patterns, decision, clock, keypair, walrus, walrusUp,
                   smartResult, chain, sample, returned, runs, historicalAnalyses,
                   aggregatedInsights, invocations, currentRecommendations,
                   tradeExecutor, recommended, fetch>>

NextTrade ==
    \/ \E m \in MaxRecommendationsArgs, a \in SdkAnswers, randoms \in RandomDraws :
            RecommendSwaps(Wallet1, m, a, randoms)
    \/ \E id \in RecommendationIdArgs, outcome \in ExecutionOutcomes :
            ExecuteTrade(id, 3, outcome)

SpecTrade == InitTrade /\ [][NextTrade]_vars

(***************************************************************************)
(* SuiClientWrapper.getSwapEventsForWallet: the paginated fetch            *)
(***************************************************************************)
MaxLimit == 2        \* largest limit handed to getSwapEventsForWallet

CetusClmmPackage == "0x1eabed72c53feb3805120a081dc15963c204dc8d091542592abaf7a35689b2fb"
CetusIntegratePackage == "0x996c4d9480708fb8b92aa7acf819fb0497b5ec8e65ba06601cae2fb6db3312c3"
CetusConfigPackage == "0x95b8d278b876cae22206131fb9724f701c9444515813042f54f0a426c9a3bc2f"

\* the filter of getSwapEventsForWallet: the event is a Cetus swap event
IsCetusSwapEvent(event) ==
    \/ Includes(event.type, CetusClmmPackage \o "::pool::SwapEvent")
    \/ Includes(event.type, CetusIntegratePackage \o "::pool::SwapEvent")
    \/ Includes(event.type, CetusConfigPackage \o "::pool::SwapEvent")

\* parseInt(text) of a text of decimal digits
ParseInt(text) == DigitsValue(text, 1, Len(text))

\* parseSwapEvent(rawEvent)
parseSwapEvent(rawEvent) ==
    [id |-> rawEvent.id.txDigest \o ":" \o rawEvent.id.eventSeq,
     timestamp |-> ParseInt(rawEvent.timestampMs),
     sender |-> rawEvent.sender,
     pool |-> rawEvent.parsedJson.pool,
     amountIn |-> rawEvent.parsedJson.amount_in,
     amountOut |-> rawEvent.parsedJson.amount_out,
     atob |-> rawEvent.parsedJson.atob,
     afterSqrtPrice |-> rawEvent.parsedJson.after_sqrt_price,
     beforeSqrtPrice |-> rawEvent.parsedJson.before_sqrt_price,
     feeAmount |-> rawEvent.parsedJson.fee_amount,
     txDigest |-> rawEvent.id.txDigest]

\* array.filter(keep), keep a set of array entries
RECURSIVE Filter(_, _)
Filter(array, keep) ==
    IF array = <<>> THEN <<>>
    ELSE (IF array[1] \in keep THEN <<array[1]>> ELSE <<>>) \o Filter(Tail(array), keep)

\* allSwaps.sort((a, b) => b.timestamp - a.timestamp): newest first, stable
SortNewestFirst(allSwaps) ==
    LET sorted == SortAscending([i \in 1..Len(allSwaps) |->
                                    [key |-> 0 - allSwaps[i].timestamp,
                                     item |-> allSwaps[i]]])
    IN  [i \in 1..Len(sorted) |-> sorted[i].item]

\* the locals of getSwapEventsForWallet when the call starts
FetchStarts(walletAddress, limit) ==
    [pc |-> "while", walletAddress |-> walletAddress, limit |-> limit,
     allSwaps |-> <<>>, cursor |-> NoValue, totalEventsFetched |-> 0,
     maxEventsToFetch |-> limit * 5, batchSize |-> 0,
     lastResult |-> NoValue, returned |-> <<>>]

\* the condition of the while loop
FetchGoesOn(f) ==
    Len(f.allSwaps) < f.limit /\ f.totalEventsFetched < f.maxEventsToFetch

\* what one pass of the loop leaves in lastResult: how the RPC call ended and
\* the length of the page
ResultSeen(result) ==
    [threw |-> result.threw,
     dataLength |-> IF result.threw \/ ~result.hasData THEN 0 ELSE Len(result.data),
     nextCursor |-> result.nextCursor,
     hasNextPage |-> result.hasNextPage]

\* the fetched-event count grows by the wallet swaps of the page only
FetchIteration_CountsSwapsOnly(f, result) ==
    LET batch == [f EXCEPT !.batchSize = IF 50 < f.maxEventsToFetch - f.totalEventsFetched
                                         THEN 50
                                         ELSE f.maxEventsToFetch - f.totalEventsFetched,
                           !.lastResult = ResultSeen(result)]
    IN  IF result.threw THEN [batch EXCEPT !.pc = "break"]
        ELSE IF ~result.hasData THEN [batch EXCEPT !.pc = "break"]
        ELSE IF Len(result.data) = 0 THEN [batch EXCEPT !.pc = "break"]
        ELSE LET swapEvents == Filter(result.data,
                                      {e \in Range(result.data) : IsCetusSwapEvent(e)})
                 parsedSwaps == [i \in 1..Len(swapEvents) |-> parseSwapEvent(swapEvents[i])]
             IN  [batch EXCEPT
                     !.allSwaps = f.allSwaps \o parsedSwaps,
                     !.totalEventsFetched = f.totalEventsFetched + Len(parsedSwaps),
                     !.cursor = result.nextCursor,
                     !.pc = IF result.nextCursor = NoValue \/ ~result.hasNextPage
                            THEN "break" ELSE "while"]

\* one pass of the while loop, from the batch size to the break or the delay;
\* result is what the RPC call suix_queryEvents gave (hasData: result.data is
\* there)
FetchIteration(f, result) ==
    LET batch == [f EXCEPT !.batchSize = IF 50 < f.maxEventsToFetch - f.totalEventsFetched
                                         THEN 50
                                         ELSE f.maxEventsToFetch - f.totalEventsFetched,
                           !.lastResult = ResultSeen(result)]
    IN  IF result.threw THEN [batch EXCEPT !.pc = "break"]
        ELSE IF ~result.hasData THEN [batch EXCEPT !.pc = "break"]
        ELSE IF Len(result.data) = 0 THEN [batch EXCEPT !.pc = "break"]
        ELSE LET swapEvents == Filter(result.data,
                                      {e \in Range(result.data) : IsCetusSwapEvent(e)})
                 parsedSwaps == [i \in 1..Len(swapEvents) |-> parseSwapEvent(swapEvents[i])]
             IN  [batch EXCEPT
                     !.allSwaps = f.allSwaps \o parsedSwaps,
                     !.totalEventsFetched = f.totalEventsFetched + Len(result.data),
                     !.cursor = result.nextCursor,
                     !.pc = IF result.nextCursor = NoValue \/ ~result.hasNextPage
                            THEN "break" ELSE "while"]

\* after the loop: sort newest first and return the first limit swaps
FetchReturns(f) ==
    [f EXCEPT !.pc = "returned",
              !.allSwaps = SortNewestFirst(f.allSwaps),
              !.returned = ArraySlice(SortNewestFirst(f.allSwaps), f.limit)]

(***************************************************************************)
(* The fetch loop of getSwapEventsForWallet against a Sui node that may    *)
(* answer each query with any page, cursor and hasNextPage flag, or fail.  *)
(***************************************************************************)
\* an event of the wallet as suix_queryEvents reports it
RawEvent(txDigest, type, timestampMs) ==
    [id |-> [txDigest |-> txDigest, eventSeq |-> "0"],
     type |-> type,
     sender |-> Wallet1,
     timestampMs |-> timestampMs,
     parsedJson |-> [pool |-> CetusSuiPoolB, amount_in |-> "1000000000",
                     amount_out |-> "2500000", atob |-> TRUE,
                     after_sqrt_price |-> "18446744073", before_sqrt_price |-> "18446744000",
                     fee_amount |-> "2500"]]

OlderSwap == RawEvent("Ax1", CetusClmmPackage \o "::pool::SwapEvent", "864000001")
NewerSwap == RawEvent("Bx2", CetusIntegratePackage \o "::pool::SwapEvent", "864000002")
OtherEvent == RawEvent("Cx3", CetusClmmPackage \o "::pool::AddLiquidityEvent", "864000003")

\* the pages a query can return
RpcPages ==
    {<<>>, <<OlderSwap>>, <<OtherEvent>>, <<OtherEvent, NewerSwap>>,
     <<OlderSwap, NewerSwap>>}

RpcCursors ==
    {NoValue, [txDigest |-> "Ax1", eventSeq |-> "0"], [txDigest |-> "Bx2", eventSeq |-> "0"]}

\* what the RPC call suix_queryEvents can give: an error, an answer without
\* data, or a page with a cursor and a flag
RpcResults ==
    {[threw |-> TRUE, hasData |-> FALSE, data |-> <<>>, nextCursor |-> NoValue,
      hasNextPage |-> FALSE],
     [threw |-> FALSE, hasData |-> FALSE, data |-> <<>>, nextCursor |-> NoValue,
      hasNextPage |-> FALSE]}
        \cup [threw : {FALSE}, hasData : {TRUE}, data : RpcPages, nextCursor : RpcCursors,
              hasNextPage : BOOLEAN]

InitFetch ==
    /\ swaps = <<>>
    /\ patterns = NoValue
    /\ decision = NoValue
    /\ clock = ClockBase
    /\ keypair = FALSE
    /\ walrus = <<>>
    /\ walrusUp = TRUE
    /\ smartResult = NoValue
    /\ chain = [w \in Wallets |-> <<>>]
    /\ toolResponse = NoValue
    /\ sample = <<>>
    /\ returned = NoValue
    /\ runs = <<>>
    /\ historicalAnalyses = <<>>
    /\ aggregatedInsights = NoValue
    /\ invocations = NoValue
    /\ currentRecommendations = <<>>
    /\ tradeExecutor = FALSE
    /\ submitted = <<>>
    /\ recommended = NoValue
    /\ fetch \in {FetchStarts(Wallet1, limit) : limit \in 0..MaxLimit}

\* the loop condition holds, the query is sent and answered, and the pass
\* runs to its break or to the end of its delay
FetchPass(result) ==
    /\ fetch.pc = "while"
    /\ FetchGoesOn(fetch)
    /\ fetch' = FetchIteration(fetch, result)
    /\ UNCHANGED <<swaps, patterns, decision, clock, keypair, walrus, walrusUp,
                   smartResult, chain, toolResponse, sample, returned, runs,
                   historicalAnalyses, aggregatedInsights, invocations,
                   currentRecommendations, tradeExecutor, submitted, recommended>>

\* the loop is left, by a break or because its condition fails, and the call
\* returns
FetchReturn ==
    /\ \/ fetch.pc = "break"
       \/ fetch.pc = "while" /\ ~FetchGoesOn(fetch)
    /\ fetch' = FetchReturns(fetch)
    /\ UNCHANGED <<swaps, patterns, decision, clock, keypair, walrus, walrusUp,
                   smartResult, chain, toolResponse, sample, returned, runs,
                   historicalAnalyses, aggregatedInsights, invocations,
                   currentRecommendations, tradeExecutor, submitted, recommended>>

NextFetch ==
    \/ \E result \in RpcResults : FetchPass(result)
    \/ FetchReturn

\* The node answers every query (with a page or an error) and the event loop
\* runs the continuation of every settled await.
SpecFetch == InitFetch /\ [][NextFetch]_vars /\ WF_vars(NextFetch)

(***************************************************************************)
(* The server: cetus.get_trading_patterns called again and again while the *)
(* wallet's swap history on chain grows.                                   *)
(***************************************************************************)
InitServer ==
    /\ swaps = <<>>
    /\ patterns = NoValue
    /\ decision = NoValue
    /\ clock = ClockBase
    /\ keypair \in BOOLEAN
    /\ walrus = <<>>
    /\ walrusUp = TRUE
    /\ smartResult = NoValue
    /\ chain = [w \in Wallets |-> <<>>]
    /\ toolResponse = NoValue
    /\ sample = <<>>
    /\ returned = NoValue
    /\ runs = <<>>
    /\ historicalAnalyses = <<>>
    /\ aggregatedInsights = NoValue
    /\ invocations = NoValue
    /\ currentRecommendations = <<>>
    /\ tradeExecutor = FALSE
    /\ submitted = <<>>
    /\ recommended = NoValue
    /\ fetch = NoValue

\* the wallet swaps once more
SwapsObserved(wallet) ==
    /\ Len(chain[wallet]) < MaxSwaps
    /\ chain' = [chain EXCEPT ![wallet] =
                    Append(@, SwapEvent(Len(@) * HourMs, CetusSuiPoolB, 7, TRUE))]
    /\ UNCHANGED <<swaps, patterns, decision, clock, keypair, walrus, walrusUp,
                   smartResult, toolResponse,
                   sample, returned, runs, historicalAnalyses, aggregatedInsights, invocations, currentRecommendations, tradeExecutor, submitted, recommended, fetch>>

\* the cetus.get_trading_patterns tool is called for the wallet
GetTradingPatterns(wallet) ==
    \E r \in {getTradingPatterns(wallet, chain[wallet], keypair, walrusUp, clock,
                                NextBlobId)} :
        /\ Len(walrus) + Len(r.written) <= MaxWrites
        /\ walrus' = walrus \o r.written
        /\ toolResponse' = [wallet |-> wallet, response |-> r.response]
        /\ UNCHANGED <<swaps, patterns, decision, clock, keypair, walrusUp,
                       smartResult, chain,
                   sample, returned, runs, historicalAnalyses, aggregatedInsights, invocations, currentRecommendations, tradeExecutor, submitted, recommended, fetch>>

NextServer ==
    \/ Tick
    \/ WalrusToggles
    \/ \E w \in Wallets : SwapsObserved(w)
    \/ \E w \in Wallets : GetTradingPatterns(w)

SpecServer == InitServer /\ [][NextServer]_vars

(***************************************************************************)
(* Claims about the update decision, checked under SpecDecision.           *)
(***************************************************************************)
\* (new - prev) / prev > 0.1 as JavaScript computes it: a previous count of 0
\* gives Infinity for a positive new count and NaN for a new count of 0
GrowthOverTenPercent(prev, new) ==
    \/ prev = 0 /\ new > 0
    \/ prev > 0 /\ 10 * (new - prev) > prev

\* C1: shouldUpdateAnalysis answers "store" exactly when there is no previous
\* stored analysis, or (new - previous) / previous is strictly greater than
\* 0.1, or the previous fingerprint differs from the new one.  With equal
\* fingerprints a growth of exactly 10 %, an unchanged or smaller count, and
\* a previous count of 0 with a new count of 0 all answer "skip".
C1_DecisionRule ==
    decision.called =>
        (decision.result <=>
            \/ decision.existing = NoValue
            \/ GrowthOverTenPercent(decision.existing.metadata.swapCount,
                                    decision.newSwapCount)
            \/ decision.existing.metadata.dataHash # decision.newDataHash)

\* a previous count of 10, a new count of 11, equal fingerprints: skip
C1_Witness ==
    /\ decision.called
    /\ decision.existing # NoValue
    /\ decision.existing.metadata.swapCount = 10
    /\ decision.newSwapCount = 11
    /\ decision.existing.metadata.dataHash = decision.newDataHash
    /\ ~decision.result

(***************************************************************************)
(* Claims about the storage client, checked under SpecStorage.             *)
(***************************************************************************)
\* the swap count has grown by at most 10 %
GrowthAtMostTenPercent(prev, new) == ~GrowthOverTenPercent(prev, new)

\* favoriteTokens[0]?.token: the top token, if there is one
TopTokens(p) ==
    [i \in 1..(IF Len(p.tokenPreferences.favoriteTokens) > 0 THEN 1 ELSE 0) |->
        p.tokenPreferences.favoriteTokens[i].token]

\* C2: when smartStoreAnalysis is given a previous stored analysis whose
\* fingerprint equals the new profile's and the swap count has grown by at
\* most 10 %, it returns stored = false, writes nothing to Walrus, and the
\* analysis it returns is the previous stored analysis, unchanged.
C2_SkipReturnsPrevious ==
    [][(/\ smartResult' # smartResult
        /\ smartResult'.existingAnalysis # NoValue
        /\ smartResult'.existingAnalysis.metadata.dataHash
               = hashAnalysisData(smartResult'.patterns)
        /\ GrowthAtMostTenPercent(smartResult'.existingAnalysis.metadata.swapCount,
                                  smartResult'.patterns.dataQuality.totalSwaps))
       => (/\ ~smartResult'.stored
           /\ ~smartResult'.threw
           /\ walrus' = walrus
           /\ smartResult'.analysis = smartResult'.existingAnalysis
           /\ smartResult'.existingAnalysis \in Range(walrus))]_vars

\* a skip on a new profile of fewer swaps than the previous one, analysed later
C2_Witness ==
    /\ smartResult # NoValue
    /\ smartResult.existingAnalysis # NoValue
    /\ ~smartResult.stored
    /\ ~smartResult.threw
    /\ smartResult.patterns.dataQuality.totalSwaps
           < smartResult.existingAnalysis.metadata.swapCount
    /\ smartResult.patterns.analysisDate
           # smartResult.existingAnalysis.analysis.analysisDate
    /\ smartResult.analysis = smartResult.existingAnalysis

\* C3: two profiles equal in swap count, top token and trading style but
\* different in analysisDate have different fingerprints: analysing unchanged
\* data again at a later time gives a fingerprint other than the stored one.
C3_DatesSeparateFingerprints ==
    (smartResult # NoValue /\ smartResult.existingAnalysis # NoValue) =>
        LET old == smartResult.existingAnalysis.analysis
            new == smartResult.patterns
        IN  (/\ old.dataQuality.totalSwaps = new.dataQuality.totalSwaps
             /\ TopTokens(old) = TopTokens(new)
             /\ old.tradingRhythm.tradingStyle = new.tradingRhythm.tradingStyle
             /\ old.analysisDate # new.analysisDate)
            => smartResult.existingAnalysis.metadata.dataHash # hashAnalysisData(new)

\* C4: when the previous stored profile and the new profile differ in top
\* token, in trading style or in swap count, their fingerprints differ and
\* smartStoreAnalysis decides to store, whatever the growth of the count.
C4_ChangeForcesStore ==
    (smartResult # NoValue /\ smartResult.existingAnalysis # NoValue) =>
        LET old == smartResult.existingAnalysis.analysis
            new == smartResult.patterns
        IN  (\/ old.dataQuality.totalSwaps # new.dataQuality.totalSwaps
             \/ TopTokens(old) # TopTokens(new)
             \/ old.tradingRhythm.tradingStyle # new.tradingRhythm.tradingStyle)
            => /\ hashAnalysisData(old) # hashAnalysisData(new)
               /\ smartResult.stored \/ smartResult.threw

(***************************************************************************)
(* Claims about the get_trading_patterns tool, checked under SpecServer.   *)
(***************************************************************************)
\* two profiles equal in everything but analysisDate
SameData(p, q) == [p EXCEPT !.analysisDate = ""] = [q EXCEPT !.analysisDate = ""]

\* Walrus holds an analysis of the wallet's present swap history
AlreadyStored(wallet) ==
    \E i \in DOMAIN walrus :
        /\ walrus[i].wallet = wallet
        /\ SameData(walrus[i].analysis, analyzePatterns(wallet, chain[wallet], clock))

\* C5: the tool compares the fresh analysis with the one stored before and
\* writes only on change: over calls for one wallet whose swap history does
\* not change, only the first call writes and every later call reports that
\* the existing analysis is used.
C5_OnlyFirstCallWrites ==
    [][(toolResponse' # toolResponse /\ AlreadyStored(toolResponse'.wallet))
       => (/\ walrus' = walrus
           /\ toolResponse'.response.storageInfo = UsingExistingNote)]_vars

\* the response carries the storage-failed note
StorageFailedReported(response) ==
    Slice(response.storageInfo, Len(StorageFailedNote(""))) = StorageFailedNote("")

\* C6: when the store write fails during a get_trading_patterns call (Walrus
\* rejects the write, or no keypair is set), the response is not an error, it
\* carries the freshly computed profile unmodified, the failure shows only as
\* the storage-failed note, and nothing is written.
C6_StoreFailureKeepsProfile ==
    [][(/\ toolResponse' # toolResponse
        /\ Len(chain[toolResponse'.wallet]) > 0
        /\ ~keypair \/ ~walrusUp)
       => (/\ ~toolResponse'.response.isError
           /\ toolResponse'.response.patterns
                  = analyzePatterns(toolResponse'.wallet,
                                    chain[toolResponse'.wallet], clock)
           /\ StorageFailedReported(toolResponse'.response)
           /\ walrus' = walrus)]_vars

\* a call with a keypair set whose write Walrus rejected
C6_Witness ==
    /\ toolResponse # NoValue
    /\ keypair
    /\ ~toolResponse.response.isError
    /\ toolResponse.response.patterns.dataQuality.totalSwaps > 0
    /\ toolResponse.response.storageInfo = StorageFailedNote("Walrus write failed")

(***************************************************************************)
(* Claims about the analyzer, checked under SpecAnalyzer.                  *)
(***************************************************************************)
Analyzed == patterns # NoValue

\* C7: for zero input swaps analyzePatterns returns the empty profile:
\* totalSwaps 0, confidence low, no favourite tokens or pools, poolCount 0,
\* diversification 0, the three category shares 0, no time distribution,
\* personality "No Trading Activity Detected" and the single insight
\* "No swap activity found for this wallet".
C7_EmptyProfile ==
    (Analyzed /\ Len(swaps) = 0) =>
        /\ patterns.dataQuality.totalSwaps = 0
        /\ patterns.dataQuality.dataConfidence = "low"
        /\ patterns.tokenPreferences.favoriteTokens = <<>>
        /\ patterns.poolPreferences.favoritePools = <<>>
        /\ patterns.poolPreferences.poolCount = 0
        /\ patterns.tokenPreferences.diversification.num = 0
        /\ patterns.tokenPreferences.tokenCategories = [major |-> 0, defi |-> 0, other |-> 0]
        /\ patterns.timingPatterns.timeDistribution = <<>>
        /\ patterns.tradingPersonality = "No Trading Activity Detected"
        /\ patterns.keyInsights = <<"No swap activity found for this wallet">>

C7_Witness == Analyzed /\ Len(swaps) = 0

\* C8: for every swap sequence, with or without duplicates, the profile's
\* dataQuality.totalSwaps is the length of the input.
C8_TotalSwapsIsLength ==
    Analyzed => patterns.dataQuality.totalSwaps = Len(swaps)

C8_Witness ==
    /\ Analyzed
    /\ Len(swaps) = 3
    /\ swaps[1] = swaps[3]
    /\ swaps[1] # swaps[2]
    /\ patterns.dataQuality.totalSwaps = 3

\* The coefficient of variation of the trade sizes x1..xn with a positive
\* mean, squared: (n * sum of squares - (sum)^2) / (sum)^2.
SizeSum == SeqSum(TradeSizes(swaps))
SizeSquares ==
    LET sizes == TradeSizes(swaps)
    IN  SeqSum([i \in 1..Len(sizes) |-> sizes[i] * sizes[i]])
CvSquaredNum ==
    LET sum == SizeSum
    IN  Len(swaps) * SizeSquares - sum * sum
CvSquaredDen ==
    LET sum == SizeSum
    IN  sum * sum

\* C9: sizing consistency follows the coefficient of variation of the trade
\* sizes with half-open bands: CV < 0.3 very_consistent, 0.3 <= CV < 0.6
\* consistent, 0.6 <= CV < 1.0 varied, CV >= 1.0 highly_varied.
C9_ConsistencyBands ==
    (Analyzed /\ Len(swaps) > 0 /\ SizeSum > 0) =>
        LET num == CvSquaredNum
            den == CvSquaredDen
        IN  patterns.tradingSizing.consistency =
                (IF 100 * num < 9 * den THEN "very_consistent"
                 ELSE IF 100 * num < 36 * den THEN "consistent"
                 ELSE IF num < den THEN "varied"
                 ELSE "highly_varied")

\* a coefficient of variation of exactly 0.3 is classified consistent
C9_Witness ==
    /\ Analyzed
    /\ Len(swaps) > 0
    /\ SizeSum > 0
    /\ 100 * CvSquaredNum = 9 * CvSquaredDen
    /\ patterns.tradingSizing.consistency = "consistent"

MaxTimestamp == CHOOSE t \in {swaps[i].timestamp : i \in 1..Len(swaps)} :
                    \A i \in 1..Len(swaps) : swaps[i].timestamp <= t
MinTimestamp == CHOOSE t \in {swaps[i].timestamp : i \in 1..Len(swaps)} :
                    \A i \in 1..Len(swaps) : swaps[i].timestamp >= t
\* the consecutive gaps of the swaps in ascending order add up to the span
GapSum == MaxTimestamp - MinTimestamp
GapCount == Len(swaps) - 1

BaseOfStyle(style) ==
    CASE style = "high_frequency" -> "High-Frequency"
      [] style = "active" -> "Active"
      [] style = "moderate" -> "Moderate"
      [] style = "occasional" -> "Occasional"

\* C11: for a non-empty swap collection the personality is "<base> <suffix>":
\* the base follows the trading style, and the suffix is
\* "<topToken> Trader (Major Token Focus)" when the major share is >= 80,
\* otherwise "DeFi Trader (<topToken> + Protocol Tokens)" when the protocol
\* share is >= 30, otherwise "Diversified Trader (<topToken> Primary)".
C11_PersonalityLabel ==
    (Analyzed /\ Len(swaps) > 0) =>
        LET base == BaseOfStyle(patterns.tradingRhythm.tradingStyle)
            topToken == patterns.tokenPreferences.favoriteTokens[1].token
            shares == patterns.tokenPreferences.tokenCategories
            suffix == IF shares.major >= 80
                      THEN topToken \o " Trader (Major Token Focus)"
                      ELSE IF shares.defi >= 30
                      THEN "DeFi Trader (" \o topToken \o " + Protocol Tokens)"
                      ELSE "Diversified Trader (" \o topToken \o " Primary)"
        IN  patterns.tradingPersonality = base \o " " \o suffix

\* two SUI/USDC swaps 12 hours apart: the major rule with the base "Active"
C11_Witness ==
    /\ Analyzed
    /\ Len(swaps) = 2
    /\ patterns.tokenPreferences.tokenCategories.major >= 80
    /\ patterns.tradingPersonality = "Active SUI Trader (Major Token Focus)"

StartsWith(s, prefix) ==
    /\ Len(s) >= Len(prefix)
    /\ SubSeq(s, 1, Len(prefix)) = prefix

EndsWith(s, suffix) ==
    /\ Len(s) >= Len(suffix)
    /\ SubSeq(s, Len(s) - Len(suffix) + 1, Len(s)) = suffix

\* C12: for a non-empty swap collection keyInsights holds, in this order, the
\* share of the top token, the share of the top pool, the sizing summary, the
\* rhythm summary and the dominant time period; the low-confidence warning is
\* there exactly when dataConfidence is low, which is exactly when there are
\* fewer than 20 swaps, and it is then the last element.
C12_KeyInsightsOrder ==
    (Analyzed /\ Len(swaps) > 0) =>
        LET insights == patterns.keyInsights
            topToken == patterns.tokenPreferences.favoriteTokens[1]
            topPool == patterns.poolPreferences.favoritePools[1]
            topPeriod == patterns.timingPatterns.timeDistribution[1]
            low == patterns.dataQuality.dataConfidence = "low"
        IN  /\ Len(insights) = IF low THEN 6 ELSE 5
            /\ low <=> Len(swaps) < 20
            /\ insights[1] = "Prefers trading " \o topToken.token \o " ("
                                \o ToString(topToken.percentage) \o "% of trades)"
            /\ insights[2] = "Most active in " \o topPool.displayName \o " pool ("
                                \o ToString(topPool.percentage) \o "% of trades)"
            /\ insights[3] = "Typical trade size: " \o patterns.tradingSizing.averageTradeSize
                                \o " (" \o patterns.tradingSizing.consistency \o ")"
            /\ EndsWith(insights[4], patterns.tradingRhythm.averageTimeBetweenTrades
                                        \o " between trades")
            /\ insights[5] = "Most active during " \o topPeriod.period \o " ("
                                \o ToString(topPeriod.percentage) \o "% of trades)"
            /\ \A i \in 1..Len(insights) :
                   StartsWith(insights[i], "Limited data (") <=> (low /\ i = 6)

C12_Witness ==
    /\ Analyzed
    /\ Len(swaps) = 20
    /\ patterns.dataQuality.dataConfidence = "medium"
    /\ Len(patterns.keyInsights) = 5
    /\ patterns.keyInsights[1] = "Prefers trading CETUS (50% of trades)"

\* the tokens of both sides of every swap, in the order of the swaps
TokenOccurrences == TokensOfPools(PoolIds(swaps))

OccurrenceCount(token) == CountOf(TokenOccurrences, token)

TokensSeen == {TokenOccurrences[i] : i \in 1..Len(TokenOccurrences)}

\* C13: every swap contributes two token occurrences, so the occurrence
\* counts sum to twice the number of swaps; favoriteTokens holds at most 5
\* tokens, the most frequent ones in descending order of occurrence count,
\* each with percentage = round(100 * count / total occurrences).
C13_FavoriteTokens ==
    Analyzed =>
        LET favorites == patterns.tokenPreferences.favoriteTokens
            occurrences == TokenOccurrences
            total == Len(occurrences)
            seen == {occurrences[i] : i \in 1..total}
            count == [t \in seen |-> CountOf(occurrences, t)]
            keys == FirstOccurrences(occurrences)
            listed == {favorites[i].token : i \in 1..Len(favorites)}
        IN  /\ total = 2 * Len(swaps)
            /\ SeqSum([i \in 1..Len(keys) |-> count[keys[i]]]) = 2 * Len(swaps)
            /\ Len(favorites) = IF Cardinality(seen) < 5 THEN Cardinality(seen) ELSE 5
            /\ Cardinality(listed) = Len(favorites)
            /\ listed \subseteq seen
            /\ \A i, j \in 1..Len(favorites) :
                   i < j => count[favorites[i].token] >= count[favorites[j].token]
            /\ \A t \in seen \ listed : \A i \in 1..Len(favorites) :
                   count[t] <= count[favorites[i].token]
            /\ \A i \in 1..Len(favorites) :
                   favorites[i].percentage
                       = RoundHalfUp(100 * count[favorites[i].token], total)

C13_Witness ==
    /\ Analyzed
    /\ Cardinality(TokensSeen) = 6
    /\ Len(patterns.tokenPreferences.favoriteTokens) = 5
    /\ patterns.tokenPreferences.favoriteTokens[1].percentage = 17

\* the distinct tokens of the swaps, sorted into the three categories
CategoriesSeen == categorizeTokens(FirstOccurrences(TokenOccurrences))

TimesListed(list, token) == Cardinality({i \in 1..Len(list) : list[i] = token})

\* C14: every token is classified into exactly one of major, defi and other,
\* and the three category shares of a profile of a non-empty collection are
\* taken over the distinct tokens observed, each counted once however many
\* swaps used it, so that before rounding the three shares sum to 100.
C14_CategoryShares ==
    (Analyzed /\ Len(swaps) > 0) =>
        LET shares == patterns.tokenPreferences.tokenCategories
            seen == TokensSeen
            distinct == Cardinality(seen)
            categories == CategoriesSeen
        IN  /\ \A t \in seen :
                   TimesListed(categories.major, t) + TimesListed(categories.defi, t)
                       + TimesListed(categories.other, t) = 1
            /\ shares.major = RoundHalfUp(100 * Len(categories.major), distinct)
            /\ shares.defi = RoundHalfUp(100 * Len(categories.defi), distinct)
            /\ shares.other = RoundHalfUp(100 * Len(categories.other), distinct)
            /\ 100 * Len(categories.major) + 100 * Len(categories.defi)
                   + 100 * Len(categories.other) = 100 * distinct

C14_Witness ==
    /\ Analyzed
    /\ Len(swaps) = 3
    /\ Cardinality(TokensSeen) = 4
    /\ OccurrenceCount("SUI") = 2
    /\ patterns.tokenPreferences.tokenCategories = [major |-> 25, defi |-> 25, other |-> 50]

\* the swaps analysed all go through pools that KNOWN_POOLS does not hold
OnlyUnknownPools ==
    /\ Len(swaps) > 0
    /\ \A i \in 1..Len(swaps) : swaps[i].pool \notin DOMAIN KNOWN_POOLS

\* C15: an unknown pool identifier is not an error: the lookup returns a
\* fallback whose display label is built from the first 8 characters of the
\* identifier and whose two token symbols are both "UNKNOWN", and such tokens
\* fall in category other.  As stated; the symbols of the fallback differ.
C15_UnknownPoolFallback ==
    (Analyzed /\ OnlyUnknownPools) =>
        /\ \A i \in 1..Len(swaps) :
               /\ getPoolDisplayName(swaps[i].pool)
                      = "Pool:" \o SubSeq(swaps[i].pool, 1, 8) \o "..."
               /\ getTokensFromPool(swaps[i].pool) = <<"UNKNOWN", "UNKNOWN">>
        /\ patterns.poolPreferences.favoritePools[1].displayName
               = "Pool:" \o SubSeq(swaps[1].pool, 1, 8) \o "..."
        /\ patterns.tokenPreferences.favoriteTokens
               = <<[token |-> "UNKNOWN", percentage |-> 100]>>
        /\ patterns.tokenPreferences.tokenCategories
               = [major |-> 0, defi |-> 0, other |-> 100]

\* 60 swaps through one pool that pairs SUI with a single other token, all
\* within two hours
SixtySwapScenario ==
    /\ Len(swaps) = 60
    /\ \A i \in 1..60 : swaps[i].pool = swaps[1].pool
    /\ \E i \in 1..2 : getTokensFromPool(swaps[1].pool)[i] = "SUI"
    /\ \E i \in 1..2 : getTokensFromPool(swaps[1].pool)[i] # "SUI"
    /\ \A i, j \in 1..60 : swaps[i].timestamp - swaps[j].timestamp <= 2 * HourMs

\* the token that the pool of the scenario pairs with SUI
PairedToken ==
    LET tokens == getTokensFromPool(swaps[1].pool)
    IN  IF tokens[1] = "SUI" THEN tokens[2] ELSE tokens[1]

\* C16: for 60 swaps through one pool pairing SUI with a single other token,
\* all within a 2-hour window, the profile has dataConfidence high,
\* tradingStyle high_frequency, a diversification score near 0 (at most a
\* tenth) and a tradingPersonality that starts with "High-Frequency" and
\* whose suffix follows the category of the paired token.  As stated; the
\* diversification score of the scenario is not near 0.
C16_SixtySwapScenario ==
    (Analyzed /\ SixtySwapScenario) =>
        /\ patterns.dataQuality.dataConfidence = "high"
        /\ patterns.tradingRhythm.tradingStyle = "high_frequency"
        /\ 10 * patterns.tokenPreferences.diversification.num
               <= patterns.tokenPreferences.diversification.den
        /\ StartsWith(patterns.tradingPersonality, "High-Frequency ")
        /\ isMajorToken(PairedToken)
               => EndsWith(patterns.tradingPersonality, "Trader (Major Token Focus)")
        /\ isDefiToken(PairedToken)
               => EndsWith(patterns.tradingPersonality, "+ Protocol Tokens)")

\* the call of fn has returned or thrown
Called(fn) == returned # NoValue /\ returned.fn = fn

\* the pairs of positions of the sample that hold the same item: the sum of
\* the squared counts of the distinct items
PairsAlike ==
    Cardinality({pair \in (1..Len(sample)) \X (1..Len(sample)) :
                    sample[pair[1]] = sample[pair[2]]})

AllIdentical == \A i, j \in 1..Len(sample) : sample[i] = sample[j]

\* C17: calculateHerfindahlIndex returns 0 for empty input; for a non-empty
\* input it returns the sum of the squared shares, a value in [0, 1], which
\* is 1 exactly when all items are identical and below 1 as soon as two
\* different items occur.
C17_HerfindahlIndex ==
    Called("calculateHerfindahlIndex") =>
        LET index == returned.outcome.value
            n == Len(sample)
        IN  /\ ~returned.outcome.threw
            /\ n = 0 => index.num = 0
            /\ n > 0 =>
                   /\ index.num * n * n = PairsAlike * index.den
                   /\ 0 <= index.num /\ index.num <= index.den
                   /\ index.num = index.den <=> AllIdentical
                   /\ ~AllIdentical => index.num < index.den

C17_Witness ==
    /\ Called("calculateHerfindahlIndex")
    /\ Len(sample) = 4
    /\ ~AllIdentical
    /\ 8 * returned.outcome.value.num = 5 * returned.outcome.value.den

\* the position in items at which value is first sighted
FirstSighting(items, value) ==
    CHOOSE i \in 1..Len(items) :
        items[i] = value /\ \A j \in 1..(i - 1) : items[j] # value

\* the value of items that is, among the most frequent ones, sighted first
FirstAmongMostFrequent(items) ==
    CHOOSE v \in {items[i] : i \in 1..Len(items)} :
        \A w \in {items[i] : i \in 1..Len(items)} \ {v} :
            \/ CountOf(items, v) > CountOf(items, w)
            \/ /\ CountOf(items, v) = CountOf(items, w)
               /\ FirstSighting(items, v) < FirstSighting(items, w)

SampleHours == [i \in 1..Len(sample) |-> getUTCHours(sample[i] * HourMs)]

SampleDays == [i \in 1..Len(sample) |-> getUTCDay(sample[i] * HourMs)]

\* C18: getFrequencyDistribution returns one (value, count, percentage) tuple
\* per distinct value, the counts sum to the length of the input, the tuples
\* are sorted by descending count and tuples of equal count keep the order in
\* which their values first occurred; so the most active hour and day of the
\* engine are, among the most frequent ones, those sighted first.
C18_FrequencyDistribution ==
    /\ Called("getFrequencyDistribution") =>
           LET tuples == returned.outcome.value
               n == Len(tuples)
           IN  /\ n = Cardinality({sample[i] : i \in 1..Len(sample)})
               /\ {tuples[i].value : i \in 1..n} = {sample[i] : i \in 1..Len(sample)}
               /\ \A i \in 1..n :
                      /\ tuples[i].count = CountOf(sample, tuples[i].value)
                      /\ tuples[i].percentage.num * Len(sample)
                             = 100 * tuples[i].count * tuples[i].percentage.den
               /\ SeqSum([i \in 1..n |-> tuples[i].count]) = Len(sample)
               /\ \A i, j \in 1..n :
                      i < j =>
                          \/ tuples[i].count > tuples[j].count
                          \/ /\ tuples[i].count = tuples[j].count
                             /\ FirstSighting(sample, tuples[i].value)
                                    < FirstSighting(sample, tuples[j].value)
    /\ Called("analyzeTimingPatterns") =>
           /\ returned.outcome.value.mostActiveHour
                  = formatHour(FirstAmongMostFrequent(SampleHours))
           /\ returned.outcome.value.mostActiveDay
                  = DAY_NAMES[FirstAmongMostFrequent(SampleDays) + 1]

\* two values tie and the later of the two numbers was sighted first
C18_Witness ==
    /\ Called("getFrequencyDistribution")
    /\ sample = <<30, 5, 5, 30>>
    /\ returned.outcome.value[1].value = 30
    /\ returned.outcome.value[2].value = 5

\* C19: percentile fails with an invalid-argument error whenever its rank is
\* outside [0, 100], for every input including the empty sequence, and never
\* fails for a rank inside [0, 100].  As stated; the empty sequence is
\* answered before the rank is looked at.
C19_PercentileRank ==
    Called("percentile") =>
        (returned.outcome.threw <=> (returned.p < 0 \/ returned.p > 100))

\* the call returned the number zero: min and max return a whole number, the
\* others a rational, which is zero when its numerator is and is not 0 / 0
ReturnedZero ==
    /\ ~returned.outcome.threw
    /\ IF returned.fn \in {"min", "max"}
       THEN returned.outcome.value = 0
       ELSE returned.outcome.value.num = 0 /\ returned.outcome.value.den > 0

\* C20: mean, median, standardDeviation, min and max each return 0 on the
\* empty sequence and raise no error on it.
C20_EmptyInput ==
    \A fn \in {"mean", "median", "standardDeviation", "min", "max"} :
        (Called(fn) /\ sample = <<>>) => ReturnedZero

C20_Witness ==
    /\ Called("min")
    /\ sample = <<>>
    /\ returned.outcome = Returns(0)

\* a profile with its analysisDate blanked
WithoutAnalysisDate(p) == [p EXCEPT !.analysisDate = ""]

\* C21: analyzePatterns is deterministic: the runs on one wallet and one swap
\* sequence return profiles that are equal in every field except
\* analysisDate.
C21_Deterministic ==
    \A i, j \in 1..Len(runs) :
        WithoutAnalysisDate(runs[i]) = WithoutAnalysisDate(runs[j])

\* two runs on two swaps at different instants
C21_Witness ==
    /\ Len(runs) = 2
    /\ Len(swaps) = 2
    /\ runs[1].analysisDate # runs[2].analysisDate
    /\ runs[1].keyInsights = runs[2].keyInsights

\* generateAggregatedInsights has been called
Aggregated == aggregatedInsights # NoValue

\* C22: no core analytical operation modifies its inputs: analyzePatterns
\* leaves the caller's swap sequence as it was, and generateAggregatedInsights
\* leaves the caller's array of StoredAnalysis as it was (same entries, same
\* order).  As stated; generateAggregatedInsights reorders the array.
C22_InputsUnchanged ==
    [][swaps' = swaps /\ historicalAnalyses' = historicalAnalyses]_vars

\* the profiles of the array handed over, oldest first
ProfilesInOrder ==
    LET sorted == SortedByStoredAt(aggregatedInsights.given)
    IN  [i \in 1..Len(sorted) |-> sorted[i].analysis]

\* the top tokens of two profiles differ, one of them possibly having none
TopTokenDiffers(prev, curr) ==
    \/ HasTopToken(prev) # HasTopToken(curr)
    \/ /\ HasTopToken(prev)
       /\ HasTopToken(curr)
       /\ prev.tokenPreferences.favoriteTokens[1].token
              # curr.tokenPreferences.favoriteTokens[1].token

\* the number of notes that the claim gives the pair
NotesClaimed(prev, curr) ==
    (IF prev.tradingRhythm.tradingStyle # curr.tradingRhythm.tradingStyle THEN 1 ELSE 0)
    + (IF TopTokenDiffers(prev, curr) THEN 1 ELSE 0)

\* C23: for each consecutive pair of profiles in storedAt order
\* generateAggregatedInsights emits one evolution note when the rhythm styles
\* differ and a second one when the top tokens differ, also when one of the
\* two profiles has no top token; the notes come in oldest-to-newest pair
\* order.  As stated; a profile without a top token yields no second note.
C23_EvolutionNotes ==
    (Aggregated /\ Len(aggregatedInsights.given) >= 2) =>
        LET profiles == ProfilesInOrder
            notes == aggregatedInsights.returned.tradingEvolution
            claimed == [i \in 1..(Len(profiles) - 1) |->
                           NotesClaimed(profiles[i], profiles[i + 1])]
        IN  /\ Len(notes) = SeqSum(claimed)
            /\ \A i \in 1..(Len(profiles) - 1) :
                   profiles[i].tradingRhythm.tradingStyle
                       # profiles[i + 1].tradingRhythm.tradingStyle
                   => notes[SeqSum(SubSeq(claimed, 1, i - 1)) + 1]
                          = "Trading style evolved from "
                            \o profiles[i].tradingRhythm.tradingStyle \o " to "
                            \o profiles[i + 1].tradingRhythm.tradingStyle

\* the value of a sizing-consistency tier, in hundredths
TierHundredths(consistency) ==
    CASE consistency = "very_consistent" -> 100
      [] consistency = "consistent" -> 75
      [] consistency = "varied" -> 50
      [] consistency = "highly_varied" -> 25

\* C24: generateAggregatedInsights returns no insights for fewer than 2
\* profiles; for 2 or more its consistencyScore is the average, rounded to 2
\* decimals, of the tier values (very_consistent 1.0, consistent 0.75, varied
\* 0.5, highly_varied 0.25) of all profiles but the chronologically oldest, so
\* the score lies in [0.25, 1.0].
C24_ConsistencyScore ==
    Aggregated =>
        IF Len(aggregatedInsights.given) < 2
        THEN aggregatedInsights.returned = NoValue
        ELSE LET profiles == ProfilesInOrder
                 tiers == [i \in 1..(Len(profiles) - 1) |->
                              TierHundredths(profiles[i + 1].tradingSizing.consistency)]
                 score == aggregatedInsights.returned.consistencyScore
             IN  /\ score.den = 100
                 /\ score.num = RoundHalfUp(SeqSum(tiers), Len(tiers))
                 /\ 25 <= score.num /\ score.num <= 100

\* three profiles handed over newest first: the average of 1.0 and 0.75 is
\* rounded up to 0.88
C24_Witness ==
    /\ Aggregated
    /\ Len(aggregatedInsights.given) = 3
    /\ DateGetTime(aggregatedInsights.given[1].storedAt)
           > DateGetTime(aggregatedInsights.given[3].storedAt)
    /\ aggregatedInsights.returned.consistencyScore = Rat(88, 100)

\* C25: the id given to a StoredAnalysis is unique: two analyses stored for
\* different wallets, or for the same wallet at different creation
\* timestamps, never receive the same id.
C25_UniqueIds ==
    \A i, j \in DOMAIN walrus :
        (i # j /\ (walrus[i].wallet # walrus[j].wallet
                      \/ walrus[i].storedAt # walrus[j].storedAt))
            => walrus[i].id # walrus[j].id

\* smartStoreAnalysis went on to storeAnalysis
DecidedStore(i) ==
    \/ invocations[i].pc \in {"writing", "threw"}
    \/ invocations[i].pc = "returned" /\ invocations[i].stored

\* both invocations were made for one wallet with the same previous analysis
\* and the same key data
SameWalletRace ==
    /\ \A i \in Invocations : invocations[i].pc # "idle"
    /\ invocations["first"].wallet = invocations["second"].wallet
    /\ invocations["first"].existingAnalysis = invocations["second"].existingAnalysis
    /\ invocations["first"].dataHash = invocations["second"].dataHash
    /\ invocations["first"].swapCount = invocations["second"].swapCount

\* two files on Walrus hold the same data of one wallet
SameStoredData(f, g) ==
    /\ f.wallet = g.wallet
    /\ WithoutAnalysisDate(f.analysis) = WithoutAnalysisDate(g.analysis)
    /\ f.metadata = g.metadata

\* C26: nothing protects against a same-wallet race: two invocations of
\* smartStoreAnalysis for one wallet, given the same previous analysis (or
\* none) and the same data, decide alike whatever the other one is doing, so
\* when one decides to store both do, and each write that resolves puts one
\* more file on Walrus; invocations for different wallets never write two
\* analyses of the same data.
C26_SameWalletRace ==
    /\ SameWalletRace => (DecidedStore("first") <=> DecidedStore("second"))
    /\ \A i \in Invocations :
           (invocations[i].pc = "returned" /\ invocations[i].stored)
               => \E k \in DOMAIN walrus :
                      /\ walrus[k] = invocations[i].storedAnalysis
                      /\ invocations[i].analysis.metadata.blobId = "blob-" \o ToString(k)
    /\ (/\ \A i \in Invocations : invocations[i].pc = "returned" /\ invocations[i].stored
        /\ invocations["first"].wallet # invocations["second"].wallet)
           => ~SameStoredData(invocations["first"].storedAnalysis,
                        invocations["second"].storedAnalysis)

\* both invocations for Wallet1 were in flight together, both stored, and
\* Walrus holds two files with the same data
C26_Witness ==
    /\ SameWalletRace
    /\ \A i \in Invocations : invocations[i].pc = "returned" /\ invocations[i].stored
    /\ \E k, l \in DOMAIN walrus :
           /\ k # l
           /\ walrus[k] = invocations["first"].storedAnalysis
           /\ walrus[l] = invocations["second"].storedAnalysis
           /\ SameStoredData(walrus[k], walrus[l])

\* every swap of the collection has the same converted trade size
EqualTradeSizes ==
    LET tradeSizes == TradeSizes(swaps)
    IN  \A i, j \in DOMAIN tradeSizes : tradeSizes[i] = tradeSizes[j]

\* C27: for every non-empty swap collection whose converted trade sizes are
\* all equal, the case of every size being 0 included, analyzeTradeSizing
\* classifies the consistency as very_consistent.
C27_EqualSizesVeryConsistent ==
    (Analyzed /\ Len(swaps) > 0 /\ EqualTradeSizes)
        => patterns.tradingSizing.consistency = "very_consistent"

\* the swap collection in every arrival order
ArrivalOrders ==
    {[i \in 1..Len(swaps) |-> swaps[f[i]]] : f \in Permutations(1..Len(swaps))}

\* C28: the order in which swaps arrive does not matter to the
\* order-sensitive computations: every permutation of the swap collection
\* gets the same dataQuality (count, time range, confidence) and the same
\* tradingRhythm as the collection analysed, and the mean gap is
\* (latest timestamp - earliest timestamp) / (n - 1).
C28_ArrivalOrder ==
    (Analyzed /\ Len(swaps) > 0) =>
        /\ \A q \in ArrivalOrders :
               /\ assessDataQuality(q) = patterns.dataQuality
               /\ analyzeTradingRhythm(q) = patterns.tradingRhythm
        /\ Len(swaps) >= 2 =>
               mean(TimeBetween(SortedSwaps(swaps))) = Rat(GapSum, GapCount)

\* three swaps at three different times arrive latest first
C28_Witness ==
    /\ Analyzed
    /\ Len(swaps) = 3
    /\ swaps[2].timestamp < swaps[3].timestamp
    /\ swaps[3].timestamp < swaps[1].timestamp
    /\ patterns.tradingRhythm.frequency # "Insufficient data"

\* the ids of the list that the most recent cetus_recommend_swaps call produced
RecommendedIds ==
    IF recommended = NoValue THEN {}
    ELSE {recommended.recommendations[i].id : i \in DOMAIN recommended.recommendations}

\* C29: over any sequence of recommend-swaps and execute-trade calls,
\* execute-trade submits a transaction only when a trade executor is
\* configured and only for a recommendation whose id is in the list that the
\* most recent recommend-swaps call produced; when the id is not in that list
\* (no call yet, or an empty list) or no executor is configured, the response
\* is an error and no transaction is submitted.
C29_ExecuteOnlyRecommended ==
    [][/\ submitted' # submitted =>
              /\ tradeExecutor
              /\ toolResponse'.tool = "cetus_execute_trade"
              /\ ~toolResponse'.isError
              /\ Len(submitted') = Len(submitted) + 1
              /\ SubSeq(submitted', 1, Len(submitted)) = submitted
              /\ LET transaction == submitted'[Len(submitted')]
                 IN  /\ transaction.recommendationId = toolResponse'.recommendationId
                     /\ transaction.recommendationId \in RecommendedIds
                     /\ \E i \in DOMAIN recommended.recommendations :
                            /\ recommended.recommendations[i].id = transaction.recommendationId
                            /\ recommended.recommendations[i].pool = transaction.pool_id
       /\ (/\ toolResponse'.tool = "cetus_execute_trade"
           /\ \/ ~tradeExecutor
              \/ toolResponse'.recommendationId \notin RecommendedIds)
              => /\ toolResponse'.isError
                 /\ submitted' = submitted]_vars

\* recommendation 1 was executed twice, for the pool of the list of the time:
\* another recommend-swaps call came between the two trades
C29_Witness ==
    /\ Len(submitted) = 2
    /\ submitted[1].recommendationId = submitted[2].recommendationId
    /\ submitted[1].pool_id # submitted[2].pool_id
    /\ toolResponse.tool = "cetus_execute_trade"
    /\ ~toolResponse.isError

\* C30: getSwapEventsForWallet(wallet, limit) terminates whatever pages the
\* node answers with, and when it has returned the loop was left for one of
\* its reasons (an RPC error, a page without events, no next cursor or
\* hasNextPage false, limit wallet swaps collected, or the budget of 5 * limit
\* fetched events used up) and at most limit swap events are returned.
C30_FetchTerminates ==
    /\ <>(fetch.pc = "returned")
    /\ [](fetch.pc = "returned" =>
            /\ Len(fetch.returned) <= fetch.limit
            /\ \/ Len(fetch.allSwaps) >= fetch.limit
               \/ fetch.totalEventsFetched >= fetch.maxEventsToFetch
               \/ /\ fetch.lastResult # NoValue
                  /\ \/ fetch.lastResult.threw
                     \/ fetch.lastResult.dataLength = 0
                     \/ fetch.lastResult.nextCursor = NoValue
                     \/ ~fetch.lastResult.hasNextPage)

\* the call returned after pages in which no event was a swap used up the
\* whole budget, although every page named a next page
C30_Witness ==
    /\ fetch.pc = "returned"
    /\ fetch.limit > 0
    /\ fetch.returned = <<>>
    /\ fetch.totalEventsFetched >= fetch.maxEventsToFetch
    /\ fetch.lastResult.hasNextPage
    /\ fetch.lastResult.nextCursor # NoValue

====
